---- MODULE Spec2Model ----
(***************************************************************************)
(* Statistical-arbitrage signal engine: the position simulator             *)
(* (src/src/analytics/pnl_tracker.py), the evaluation cycle that drives it *)
(* (src/src/main.py) and the alert engine (src/src/alerts/engine.py).      *)
(*                                                                         *)
(* Numbers are fixed point: money in whole dollars, z-scores and alert values in   *)
(* hundredths, percentages of the configuration as whole percents, time in *)
(* seconds.  Python floats are modelled by exact integer arithmetic with   *)
(* quotients truncated toward zero; threshold comparisons are made on the  *)
(* cross-multiplied integers, so no comparison depends on a rounded value. *)
(***************************************************************************)
EXTENDS Integers, Sequences, FiniteSets, TLC

VARIABLES
    sim,                \* the PositionSimulator instance (its fields)
    simRet,             \* the last PositionSimulator call and what it returned
    tasks,              \* evaluation tasks running _compute_analytics
    rules,              \* AlertEngine.rules: the registered rule objects
    enabled,            \* AlertRule.enabled of every rule object
    alert_history,      \* AlertEngine.alert_history
    last_trigger_times, \* AlertEngine.last_trigger_times, by rule_id
    callbacks,          \* AlertEngine.callbacks, in registration order
    calls,              \* check_rule invocations, one per caller
    now,                \* the wall clock read by datetime.now(), in seconds
    calc,               \* the last call of a static method: arguments and result
    tick_buffer,        \* TradingAnalyticsApp.tick_buffer, a TickBuffer
    app,                \* the tick path of TradingAnalyticsApp: batch_buffer, the database
    ws_client           \* the BinanceWebSocketClient and its connect_symbol tasks

simVars == <<sim, simRet>>
alertVars == <<rules, enabled, alert_history, last_trigger_times, callbacks, calls>>
ingestVars == <<tick_buffer, app, ws_client>>
vars == <<sim, simRet, tasks, rules, enabled, alert_history, last_trigger_times,
          callbacks, calls, now, calc, tick_buffer, app, ws_client>>

----------------------------------------------------------------------------
(* Bounds of the model *)

MaxTrades == 1      \* exit checks stop once this many trades are closed
MaxAlerts == 2      \* check_rule is called while the history is shorter
MaxListeners == 2   \* listeners registered
MaxTime == 61       \* the clock stops at MaxTime seconds
MaxCloses == 2      \* trades closed in the runs of several trades

(* Configuration of the simulator, as main.py constructs it *)

initial_capital == 10000        \* 10000 USD
entry_threshold == 200          \* 2.0
exit_threshold == 20            \* 0.2
position_size_pct == 10         \* 0.10
stop_loss_pct == 5              \* 0.05
take_profit_pct == 10           \* 0.10

(* Inputs the operations are tried on *)

ZScores == {-250, -200, 10, 20, 250}
Spreads == {18, 20, 21}

----------------------------------------------------------------------------
(* Arithmetic helpers *)

Abs(x) == IF x < 0 THEN -x ELSE x

Max(a, b) == IF a >= b THEN a ELSE b

Min(a, b) == IF a <= b THEN a ELSE b

\* Float division a / b of the source, truncated toward zero.
Quot(a, b) ==
    IF (a >= 0) = (b > 0) THEN Abs(a) \div Abs(b) ELSE -(Abs(a) \div Abs(b))

----------------------------------------------------------------------------
(* PositionSimulator *)

\* current_position = None
NoPosition ==
    [entry_time |-> 0, entry_zscore |-> 0, entry_spread |-> 0,
     entry_price_1 |-> 0, entry_price_2 |-> 0, direction |-> "none",
     size |-> 0, hedge_ratio |-> 0]

\* The return value None
RetNone == [kind |-> "None"]

\* PositionSimulator.__init__
NewSimulator ==
    [current_capital |-> initial_capital,
     current_position |-> NoPosition,
     closed_trades |-> <<>>,
     max_unrealized_profit |-> 0,
     max_unrealized_loss |-> 0,
     total_pnl |-> 0,
     win_count |-> 0,
     loss_count |-> 0,
     max_drawdown |-> 0,
     peak_capital |-> initial_capital]

\* _calculate_pnl: <<pnl, pnl_pct>> of the open position at current_spread
\* (pnl in dollars, pnl_pct in hundredths of a percent).
calculate_pnl(self, current_spread) ==
    IF self.current_position = NoPosition
    THEN [pnl |-> 0, pnl_pct |-> 0]
    ELSE LET pos == self.current_position
             spread_change == current_spread - pos.entry_spread
             pnl == IF pos.direction = "long"
                    THEN Quot(pos.size * spread_change, pos.entry_spread)
                    ELSE Quot(pos.size * (-spread_change), pos.entry_spread)
         IN  [pnl |-> pnl, pnl_pct |-> Quot(pnl * 10000, pos.size)]

\* `if self.current_position is not None` (check_entry_signal, line 122),
\* mutated: the guard never holds.
already_in_position_never(self) == FALSE

already_in_position(self) == self.current_position # NoPosition

\* `abs(zscore) > self.entry_threshold` (line 126), mutated: not strict.
entry_triggered_nonstrict(zscore) == Abs(zscore) >= entry_threshold

entry_triggered(zscore) == Abs(zscore) > entry_threshold

entry_direction(zscore) == IF zscore > 0 THEN "short" ELSE "long"

entry_size(self) == Quot(self.current_capital * position_size_pct, 100)

\* check_entry_signal mutated: the trackers of the previous position are not
\* reset on entry.
check_entry_signal_keeps_trackers(self, zscore, spread, price_1, price_2, hedge_ratio, timestamp) ==
    IF already_in_position(self)
    THEN [self |-> self, ret |-> RetNone]
    ELSE IF entry_triggered(zscore)
    THEN LET direction == entry_direction(zscore)
             size == entry_size(self)
         IN  [self |-> [self EXCEPT
                          !.current_position =
                              [entry_time |-> timestamp, entry_zscore |-> zscore,
                               entry_spread |-> spread, entry_price_1 |-> price_1,
                               entry_price_2 |-> price_2, direction |-> direction,
                               size |-> size, hedge_ratio |-> hedge_ratio]],
              ret |-> [kind |-> "ENTRY", direction |-> direction, zscore |-> zscore]]
    ELSE [self |-> self, ret |-> RetNone]

\* check_entry_signal: the simulator after the call, and the value returned.
check_entry_signal(self, zscore, spread, price_1, price_2, hedge_ratio, timestamp) ==
    IF already_in_position(self)
    THEN [self |-> self, ret |-> RetNone]
    ELSE IF entry_triggered(zscore)
    THEN LET direction == entry_direction(zscore)
             size == entry_size(self)
         IN  [self |-> [self EXCEPT
                          !.current_position =
                              [entry_time |-> timestamp, entry_zscore |-> zscore,
                               entry_spread |-> spread, entry_price_1 |-> price_1,
                               entry_price_2 |-> price_2, direction |-> direction,
                               size |-> size, hedge_ratio |-> hedge_ratio],
                          !.max_unrealized_profit = 0,
                          !.max_unrealized_loss = 0],
              ret |-> [kind |-> "ENTRY", direction |-> direction, zscore |-> zscore]]
    ELSE [self |-> self, ret |-> RetNone]

\* The if/elif chain of check_exit_signal (lines 185-207), mutated: the stop
\* loss is tested first.
exit_reason_stop_first(pos, zscore, current_pnl) ==
    IF current_pnl * 100 < -(pos.size * stop_loss_pct)
    THEN "Stop loss"
    ELSE IF Abs(zscore) < exit_threshold
    THEN "Mean reversion complete"
    ELSE IF \/ (pos.direction = "long" /\ zscore > 0)
            \/ (pos.direction = "short" /\ zscore < 0)
    THEN "Z-score crossed zero"
    ELSE IF current_pnl * 100 > pos.size * take_profit_pct
    THEN "Take profit"
    ELSE ""

\* The if/elif chain of check_exit_signal, mutated: the zero crossing is
\* tested before the mean reversion.
exit_reason_cross_first(pos, zscore, current_pnl) ==
    IF \/ (pos.direction = "long" /\ zscore > 0)
       \/ (pos.direction = "short" /\ zscore < 0)
    THEN "Z-score crossed zero"
    ELSE IF Abs(zscore) < exit_threshold
    THEN "Mean reversion complete"
    ELSE IF current_pnl * 100 < -(pos.size * stop_loss_pct)
    THEN "Stop loss"
    ELSE IF current_pnl * 100 > pos.size * take_profit_pct
    THEN "Take profit"
    ELSE ""

\* The if/elif chain of check_exit_signal: exit_reason, "" when should_exit
\* stays False.
exit_reason(pos, zscore, current_pnl) ==
    IF Abs(zscore) < exit_threshold
    THEN "Mean reversion complete"
    ELSE IF \/ (pos.direction = "long" /\ zscore > 0)
            \/ (pos.direction = "short" /\ zscore < 0)
    THEN "Z-score crossed zero"
    ELSE IF current_pnl * 100 < -(pos.size * stop_loss_pct)
    THEN "Stop loss"
    ELSE IF current_pnl * 100 > pos.size * take_profit_pct
    THEN "Take profit"
    ELSE ""

\* The ClosedTrade record _close_position builds (lines 282-294).
closed_trade(self, pos, exit_zscore, exit_time, p) ==
    [entry_time |-> pos.entry_time, exit_time |-> exit_time,
     entry_zscore |-> pos.entry_zscore, exit_zscore |-> exit_zscore,
     direction |-> pos.direction, size |-> pos.size,
     pnl |-> p.pnl, pnl_percent |-> p.pnl_pct,
     hold_duration |-> exit_time - pos.entry_time,
     max_favorable |-> self.max_unrealized_profit,
     max_adverse |-> self.max_unrealized_loss]

\* `self.current_capital += pnl; self.total_pnl += pnl` (lines 262-263),
\* mutated: total_pnl is left alone.
close_update_capital_only(self, pnl) ==
    [self EXCEPT !.current_capital = @ + pnl]

close_update_capital(self, pnl) ==
    [self EXCEPT !.current_capital = @ + pnl, !.total_pnl = @ + pnl]

\* d / peak in millionths, truncated, for d >= 0 and peak > 0: the quotient
\* is taken three digits at a time, so that no product leaves 32 bits.
Millionths(d, peak) ==
    LET r1 == (d % peak) * 1000
        r2 == (r1 % peak) * 1000
    IN  (d \div peak) * 1000000 + (r1 \div peak) * 1000 + (r2 \div peak)

\* Peak and drawdown update, mutated: the peak is never raised.
close_update_drawdown_keeps_peak(self) ==
    LET drawdown == Millionths(Max(self.peak_capital - self.current_capital, 0),
                               self.peak_capital)
    IN  [self EXCEPT !.max_drawdown = Max(@, drawdown)]

\* Peak and drawdown update, mutated: max_drawdown is the drawdown of the
\* last close.
close_update_drawdown_last(self) ==
    LET peak == IF self.current_capital > self.peak_capital
                THEN self.current_capital ELSE self.peak_capital
        drawdown == Millionths(peak - self.current_capital, peak)
    IN  [self EXCEPT !.peak_capital = peak, !.max_drawdown = drawdown]

\* Peak and drawdown update (lines 266-270); max_drawdown is a fraction, kept
\* in millionths.
close_update_drawdown(self) ==
    LET peak == IF self.current_capital > self.peak_capital
                THEN self.current_capital ELSE self.peak_capital
        drawdown == Millionths(peak - self.current_capital, peak)
    IN  [self EXCEPT !.peak_capital = peak,
                     !.max_drawdown = Max(@, drawdown)]

\* Win/loss count, mutated: a pnl of exactly 0 is a win.
close_update_counts_zero_wins(self, pnl) ==
    IF pnl >= 0
    THEN [self EXCEPT !.win_count = @ + 1]
    ELSE [self EXCEPT !.loss_count = @ + 1]

\* Win/loss count (lines 273-276)
close_update_counts(self, pnl) ==
    IF pnl > 0
    THEN [self EXCEPT !.win_count = @ + 1]
    ELSE [self EXCEPT !.loss_count = @ + 1]

\* `self.closed_trades.append(trade)`, mutated: the history is replaced by
\* the new trade.
close_append_trade_replaces(self, trade) ==
    [self EXCEPT !.closed_trades = <<trade>>]

\* `self.closed_trades.append(trade)` (line 296)
close_append_trade(self, trade) ==
    [self EXCEPT !.closed_trades = Append(@, trade)]

close_clear_position(self) == [self EXCEPT !.current_position = NoPosition]

\* _close_position: the simulator after the close, and the value returned.
close_position(self, exit_zscore, exit_spread, exit_price_1, exit_price_2, exit_time, reason) ==
    IF self.current_position = NoPosition
    THEN [self |-> self, ret |-> RetNone]
    ELSE LET pos == self.current_position
             p == calculate_pnl(self, exit_spread)
             trade == closed_trade(self, pos, exit_zscore, exit_time, p)
             s1 == close_update_capital(self, p.pnl)
             s2 == close_update_drawdown(s1)
             s3 == close_update_counts(s2, p.pnl)
             s4 == close_append_trade(s3, trade)
         IN  [self |-> close_clear_position(s4),
              ret |-> [kind |-> "EXIT", reason |-> reason,
                       pnl |-> p.pnl, pnl_pct |-> p.pnl_pct]]

\* check_exit_signal: the simulator after the call, and the value returned.
check_exit_signal(self, zscore, spread, price_1, price_2, timestamp) ==
    IF self.current_position = NoPosition
    THEN [self |-> self, ret |-> RetNone]
    ELSE LET pos == self.current_position
             current_pnl == calculate_pnl(self, spread).pnl
             tracked == [self EXCEPT
                           !.max_unrealized_profit = Max(@, current_pnl),
                           !.max_unrealized_loss = Min(@, current_pnl)]
             reason == exit_reason(pos, zscore, current_pnl)
         IN  IF reason # ""
             THEN close_position(tracked, zscore, spread, price_1, price_2,
                                 timestamp, reason)
             ELSE [self |-> tracked, ret |-> RetNone]

\* get_unrealized_pnl mutated: without a position it reports the realized
\* pnl of the simulator instead of 0.
get_unrealized_pnl_flat_reports_total(self, current_spread, current_price_1, current_price_2) ==
    IF self.current_position = NoPosition
    THEN [kind |-> "unrealized", has_position |-> FALSE, pnl |-> self.total_pnl,
          pnl_percent |-> 0]
    ELSE LET p == calculate_pnl(self, current_spread)
         IN  [kind |-> "unrealized", has_position |-> TRUE,
              direction |-> self.current_position.direction,
              entry_time |-> self.current_position.entry_time,
              entry_zscore |-> self.current_position.entry_zscore,
              size |-> self.current_position.size,
              pnl |-> p.pnl, pnl_percent |-> p.pnl_pct,
              max_favorable |-> self.max_unrealized_profit,
              max_adverse |-> self.max_unrealized_loss]

\* get_unrealized_pnl: the dict returned (the simulator is not written).
get_unrealized_pnl(self, current_spread, current_price_1, current_price_2) ==
    IF self.current_position = NoPosition
    THEN [kind |-> "unrealized", has_position |-> FALSE, pnl |-> 0,
          pnl_percent |-> 0]
    ELSE LET p == calculate_pnl(self, current_spread)
         IN  [kind |-> "unrealized", has_position |-> TRUE,
              direction |-> self.current_position.direction,
              entry_time |-> self.current_position.entry_time,
              entry_zscore |-> self.current_position.entry_zscore,
              size |-> self.current_position.size,
              pnl |-> p.pnl, pnl_percent |-> p.pnl_pct,
              max_favorable |-> self.max_unrealized_profit,
              max_adverse |-> self.max_unrealized_loss]

\* Sum of the pnl of the trades of a history
RECURSIVE SumPnl(_)
SumPnl(trades) ==
    IF trades = <<>> THEN 0
    ELSE trades[Len(trades)].pnl + SumPnl(SubSeq(trades, 1, Len(trades) - 1))

\* The integer square root, for np.std
RECURSIVE SqrtBetween(_, _, _)
SqrtBetween(n, lo, hi) ==
    IF lo >= hi THEN lo
    ELSE LET mid == (lo + hi + 1) \div 2
         IN  IF mid * mid <= n THEN SqrtBetween(n, mid, hi)
             ELSE SqrtBetween(n, lo, mid - 1)

ISqrt(n) == SqrtBetween(n, 0, Min(n, 46340))

RECURSIVE SumSeq(_)
SumSeq(s) == IF s = <<>> THEN 0 ELSE s[1] + SumSeq(Tail(s))

\* The Sharpe ratio of the trades' pnl_percent (lines 369-375), in
\* hundredths: 0 with fewer than two trades or a zero deviation, else
\* mean / std * sqrt(252), sqrt(252) taken as 15.87.
sharpe_ratio(trades) ==
    LET returns == [i \in 1..Len(trades) |-> trades[i].pnl_percent]
        n == Len(returns)
        mean_return == Quot(SumSeq(returns), n)
        std_return ==
            ISqrt(Quot(SumSeq([i \in 1..n |->
                          (returns[i] - mean_return) * (returns[i] - mean_return)]),
                       n))
    IN  IF n > 1 /\ std_return > 0
        THEN Quot(mean_return * 1587, std_return)
        ELSE 0

\* get_performance_metrics: the dict returned (the simulator is not written).
\* win_rate, total_return in hundredths of a percent, profit_factor and
\* sharpe_ratio in hundredths, max_drawdown in ten-thousandths of a percent.
get_performance_metrics(self) ==
    LET total_trades == Len(self.closed_trades)
        wins == SelectSeq(self.closed_trades, LAMBDA t: t.pnl > 0)
        losses == SelectSeq(self.closed_trades, LAMBDA t: t.pnl < 0)
        total_wins == SumPnl(wins)
        total_losses == Abs(SumPnl(losses))
    IN  IF total_trades = 0
        THEN [kind |-> "metrics", total_trades |-> 0, win_rate |-> 0,
              avg_win |-> 0, avg_loss |-> 0, profit_factor |-> 0,
              sharpe_ratio |-> 0, max_drawdown |-> 0, total_pnl |-> 0,
              current_capital |-> self.current_capital]
        ELSE [kind |-> "metrics", total_trades |-> total_trades,
              win_rate |-> Quot(self.win_count * 10000, total_trades),
              avg_win |-> IF wins # <<>> THEN Quot(total_wins, Len(wins)) ELSE 0,
              avg_loss |-> IF losses # <<>>
                           THEN Quot(total_losses, Len(losses)) ELSE 0,
              profit_factor |-> IF total_losses > 0
                                THEN Quot(total_wins * 100, total_losses) ELSE 0,
              sharpe_ratio |-> sharpe_ratio(self.closed_trades),
              max_drawdown |-> self.max_drawdown,
              total_pnl |-> self.total_pnl,
              total_return |->
                  Quot((self.current_capital - initial_capital) * 10000,
                       initial_capital),
              current_capital |-> self.current_capital,
              peak_capital |-> self.peak_capital]

\* get_trade_history: the rows of the DataFrame returned, one per closed
\* trade in history order (the simulator is not written).
get_trade_history(self) ==
    [kind |-> "trades",
     rows |-> [i \in 1..Len(self.closed_trades) |->
                  LET trade == self.closed_trades[i]
                  IN  [entry_time |-> trade.entry_time,
                       exit_time |-> trade.exit_time,
                       direction |-> IF trade.direction = "long"
                                     THEN "LONG" ELSE "SHORT",
                       entry_zscore |-> trade.entry_zscore,
                       exit_zscore |-> trade.exit_zscore,
                       size |-> trade.size, pnl |-> trade.pnl,
                       pnl_percent |-> trade.pnl_percent,
                       hold_min |-> Quot(trade.hold_duration, 60),
                       result |-> IF trade.pnl > 0 THEN "Win" ELSE "Loss"]]]

----------------------------------------------------------------------------
(* AlertEngine *)

\* last_trigger_times.get(rule_id) is None
NoTime == -1

\* current_value = None
NoValue == -9999

\* The rule objects: AlertRuleBuilder.zscore_threshold_alert(pair, 2.0) and
\* AlertRuleBuilder.correlation_break_alert(pair, 0.7).
RuleObjs == {"zscore", "corr_break"}

RuleDef(rule) ==
    IF rule = "zscore"
    THEN [rule_id |-> "zscore_pair_2.0", alert_type |-> "zscore_threshold",
          symbol |-> "pair", condition |-> "zscore_above", threshold |-> 200,
          severity |-> "warning", cooldown_seconds |-> 60]
    ELSE IF rule = "mr_entry"
    THEN [rule_id |-> "mr_entry_pair", alert_type |-> "zscore_threshold",
          symbol |-> "pair", condition |-> "zscore_entry", threshold |-> 200,
          severity |-> "critical", cooldown_seconds |-> 120]
    ELSE [rule_id |-> "corr_break_pair", alert_type |-> "correlation_break",
          symbol |-> "pair", condition |-> "correlation_break", threshold |-> 70,
          severity |-> "warning", cooldown_seconds |-> 300]

\* The rule objects an engine can hold: those above and
\* AlertRuleBuilder.mean_reversion_entry_alert(pair, 2.0), the entry rule the
\* application registers.
EngineRules == RuleObjs \cup {"mr_entry"}

RuleIds == {RuleDef(r).rule_id : r \in EngineRules}

\* rules.get(rule_id) is None
NoRule == "none"

\* The rule add_rule, remove_rule, enable_rule and disable_rule are tried on
RegistryRules == {"zscore"}

\* Values check_rule is called with, and the listeners that get registered
\* (plain or coroutine function, returning or raising).
Values == {50, 250, 300, NoValue}
Listeners == {"sync_raises", "async_ok", "async_raises"}

\* asyncio.iscoroutinefunction(callback)
iscoroutinefunction(listener) == listener \in {"async_ok", "async_raises"}

ListenerRaises(listener) == listener \in {"sync_raises", "async_raises"}

\* AlertConditions.zscore_above / zscore_entry / correlation_break on
\* (value, threshold): "True", "False", or "raise" (abs(None) and None < x
\* raise TypeError).
condition(rule, value) ==
    IF value = NoValue THEN "raise"
    ELSE IF RuleDef(rule).condition \in {"zscore_above", "zscore_entry"}
    THEN (IF Abs(value) > RuleDef(rule).threshold THEN "True" ELSE "False")
    ELSE (IF value < RuleDef(rule).threshold THEN "True" ELSE "False")

\* `if not rule.enabled` (line 129), mutated: the test is missing.
rule_disabled_never(rule) == FALSE

rule_disabled(rule) == ~enabled[rule]

\* The cooldown test of check_rule (lines 133-137), mutated: not strict.
cooldown_active_nonstrict(rule, t) ==
    LET last_trigger == last_trigger_times[RuleDef(rule).rule_id]
    IN  last_trigger # NoTime /\ t - last_trigger <= RuleDef(rule).cooldown_seconds

cooldown_active(rule, t) ==
    LET last_trigger == last_trigger_times[RuleDef(rule).rule_id]
    IN  last_trigger # NoTime /\ t - last_trigger < RuleDef(rule).cooldown_seconds

\* The except clause around rule.condition (lines 140-144), mutated: the
\* error of the predicate propagates.
condition_error_propagates(outcome) == outcome = "raise"

\* Whether an outcome of rule.condition leaves check_rule as an exception:
\* never, the except clause logs it and returns None.
condition_error_raised(outcome) == FALSE

\* The Alert check_rule builds (lines 150-165)
build_alert(rule, value, t) ==
    [rule_id |-> RuleDef(rule).rule_id, alert_type |-> RuleDef(rule).alert_type,
     symbol |-> RuleDef(rule).symbol, severity |-> RuleDef(rule).severity,
     message |-> [template |-> rule, symbol |-> RuleDef(rule).symbol,
                  value |-> value, threshold |-> RuleDef(rule).threshold],
     value |-> value, threshold |-> RuleDef(rule).threshold, timestamp |-> t]

\* The except clause around a callback (lines 175-181), mutated: the error
\* of a listener leaves the loop.
after_callback_uncaught(listener) ==
    IF ListenerRaises(listener) THEN "propagate" ELSE "continue"

\* What the loop does once a callback has returned or raised: the except
\* clause logs the error and the loop goes on.
after_callback(listener) == "continue"

\* The callbacks loop (lines 174-181) from index i, up to its next suspension
\* (an awaited coroutine listener), its end, or an error leaving it.
\* invoked: the indexes of the listeners called so far with the alert.
RECURSIVE run_callbacks(_, _, _)
run_callbacks(cbs, i, invoked) ==
    IF i > Len(cbs)
    THEN [pc |-> "returned", next |-> 0, invoked |-> invoked]
    ELSE IF iscoroutinefunction(cbs[i])
    THEN [pc |-> "awaiting", next |-> i, invoked |-> Append(invoked, i)]
    ELSE IF after_callback(cbs[i]) = "propagate"
    THEN [pc |-> "raised", next |-> 0, invoked |-> Append(invoked, i)]
    ELSE run_callbacks(cbs, i + 1, Append(invoked, i))

\* A caller not inside check_rule, before its first call.  at: the statement
\* the last call left check_rule by; invoked: the listeners it called.
IdleCall ==
    [pc |-> "idle", at |-> "none", alert |-> RetNone, ret |-> RetNone,
     next |-> 0, invoked |-> <<>>]

\* The caller's record once the callbacks loop has run to `run`
CallAfter(alert, run) ==
    [pc |-> IF run.pc = "awaiting" THEN "awaiting" ELSE "idle",
     at |-> IF run.pc = "awaiting" THEN "await callback"
            ELSE IF run.pc = "raised" THEN "callback error"
            ELSE "return alert",
     alert |-> alert,
     ret |-> IF run.pc = "awaiting" THEN RetNone
             ELSE IF run.pc = "raised" THEN [kind |-> "raised"]
             ELSE [kind |-> "Alert", alert |-> alert],
     next |-> run.next, invoked |-> run.invoked]

\* check_rule left before an alert is built: at the enabled test, the
\* cooldown test, the except clause of the predicate or the predicate's False
CallNoAlert(at) ==
    [pc |-> "idle", at |-> at, alert |-> RetNone,
     ret |-> IF at = "condition error" /\ condition_error_raised("raise")
             THEN [kind |-> "raised"] ELSE RetNone,
     next |-> 0, invoked |-> <<>>]

----------------------------------------------------------------------------
(* Initial state: the objects as their constructors leave them *)

Tasks == {1, 2}
Callers == {1, 2}

\* No static method called yet
NoCalc == [fn |-> "none"]

\* TickBuffer.__init__: no symbol has a buffer; ret is what the last call
\* returned and arrived the ticks passed to add_tick so far, in order.
NewTickBuffer == [buffers |-> <<>>, ret |-> RetNone, arrived |-> <<>>]

\* The symbols of the trade streams (DEFAULT_SYMBOLS)
Symbols == {"btcusdt", "ethusdt"}

\* An on_tick_received coroutine that is not running: pc is the await it is
\* suspended at, tick its argument, ticks the list object passed to
\* insert_ticks_batch and args the rows executemany was called with.
IdleHandler == [pc |-> "idle", tick |-> RetNone, ticks |-> 0, args |-> <<>>]

\* TradingAnalyticsApp.__init__ (the tick path).  lists is the heap of list
\* objects and batch_buffer the one self.batch_buffer is bound to; handlers
\* are the on_tick_received coroutines, one per symbol stream.  appended,
\* passed and inserted record the ticks appended to batch_buffer, read by an
\* insert_ticks_batch call and written by a successful one; received counts
\* the on_tick_received calls.
NewApp ==
    [lists |-> << <<>> >>, batch_buffer |-> 1, last_flush_time |-> 0,
     handlers |-> [s \in Symbols |-> IdleHandler],
     appended |-> {}, passed |-> {}, inserted |-> {}, received |-> 0]

\* A connect_symbol task that was not created: pc is where the task is,
\* reconnect_count and delay its locals, failures the WebSocket errors since
\* its last successful connection.
NoStream == [pc |-> "none", reconnect_count |-> 0, delay |-> 0, failures |-> 0]

\* BinanceWebSocketClient.__init__; started and stopped record that start()
\* and stop() were called
NewClient ==
    [running |-> FALSE, started |-> FALSE, stopped |-> FALSE,
     streams |-> [s \in Symbols |-> NoStream]]

\* A task outside _compute_analytics
IdleTask == [pc |-> "idle", zscore |-> 0, spread |-> 0]

Init ==
    /\ sim = NewSimulator
    /\ simRet = [op |-> "init", ret |-> RetNone]
    /\ tasks = [t \in Tasks |-> IdleTask]
    /\ rules = [id \in RuleIds |-> NoRule]
    /\ enabled = [r \in EngineRules |-> TRUE]
    /\ alert_history = <<>>
    /\ last_trigger_times = [id \in RuleIds |-> NoTime]
    /\ callbacks = <<>>
    /\ calls = [c \in Callers |-> IdleCall]
    /\ now = 0
    /\ calc = NoCalc
    /\ tick_buffer = NewTickBuffer
    /\ app = NewApp
    /\ ws_client = NewClient

----------------------------------------------------------------------------
(* One caller driving one PositionSimulator, call after call *)

\* The market observation passed with a spread: the two prices and the hedge
\* ratio with price_1 - hedge_ratio * price_2 = spread (main.py lines 231,
\* 253-255).
Observation(spread) ==
    [spread |-> spread, price_1 |-> 80 + spread, price_2 |-> 40,
     hedge_ratio |-> 2]

CheckEntry(zscore, spread) ==
    /\ LET o == Observation(spread)
           r == check_entry_signal(sim, zscore, o.spread, o.price_1, o.price_2,
                                   o.hedge_ratio, now)
       IN  /\ sim' = r.self
           /\ simRet' = [op |-> "check_entry_signal", ret |-> r.ret]
    /\ UNCHANGED <<ingestVars, calc, tasks, alertVars, now>>

\* check_exit_signal, called while fewer than `limit` trades are closed
CheckExitBounded(limit, zscore, spread) ==
    /\ Len(sim.closed_trades) < limit
    /\ LET o == Observation(spread)
           r == check_exit_signal(sim, zscore, o.spread, o.price_1, o.price_2,
                                  now)
       IN  /\ sim' = r.self
           /\ simRet' = [op |-> "check_exit_signal", ret |-> r.ret]
    /\ UNCHANGED <<ingestVars, calc, tasks, alertVars, now>>

CheckExit(zscore, spread) == CheckExitBounded(MaxTrades, zscore, spread)

GetUnrealizedPnl(spread) ==
    /\ LET o == Observation(spread)
       IN  simRet' = [op |-> "get_unrealized_pnl",
                      ret |-> get_unrealized_pnl(sim, o.spread, o.price_1,
                                                 o.price_2)]
    /\ UNCHANGED <<ingestVars, calc, sim, tasks, alertVars, now>>

GetPerformanceMetrics ==
    /\ simRet' = [op |-> "get_performance_metrics",
                  ret |-> get_performance_metrics(sim)]
    /\ UNCHANGED <<ingestVars, calc, sim, tasks, alertVars, now>>

Next ==
    \/ \E z \in ZScores, s \in Spreads : CheckEntry(z, s)
    \/ \E z \in ZScores, s \in Spreads : CheckExit(z, s)
    \/ \E s \in Spreads : GetUnrealizedPnl(s)
    \/ GetPerformanceMetrics

Spec == Init /\ [][Next]_vars

----------------------------------------------------------------------------
(* One caller taking a PositionSimulator through several trades *)

CloseZScores == {-250, 10, 250}
CloseSpreads == {18, 20}

GetTradeHistory ==
    /\ simRet' = [op |-> "get_trade_history", ret |-> get_trade_history(sim)]
    /\ UNCHANGED <<ingestVars, calc, sim, tasks, alertVars, now>>

NextCloses ==
    \/ \E z \in CloseZScores, s \in CloseSpreads : CheckEntry(z, s)
    \/ \E z \in CloseZScores, s \in CloseSpreads :
           CheckExitBounded(MaxCloses, z, s)
    \/ GetPerformanceMetrics
    \/ GetTradeHistory

SpecCloses == Init /\ [][NextCloses]_vars

----------------------------------------------------------------------------
(* One caller driving the AlertEngine; check_rule is suspended while it    *)
(* awaits a coroutine listener.                                            *)

NoCallInFlight == \A c \in Callers : calls[c].pc = "idle"

\* check_rule mutated: last_trigger_times is written after the callbacks
\* loop, so a call suspended in the loop has not written it.
CheckRuleUpdateAfterLoop(c, rule, value) ==
    /\ calls[c].pc = "idle"
    /\ Len(alert_history) < MaxAlerts
    /\ IF \/ rule_disabled(rule)
          \/ cooldown_active(rule, now)
          \/ condition(rule, value) # "True"
       THEN /\ calls' = [calls EXCEPT ![c] =
                  CallNoAlert(IF rule_disabled(rule) THEN "disabled"
                              ELSE IF cooldown_active(rule, now) THEN "cooldown"
                              ELSE IF condition(rule, value) = "raise"
                              THEN "condition error"
                              ELSE "condition false")]
            /\ UNCHANGED <<alert_history, last_trigger_times, now>>
       ELSE LET alert == build_alert(rule, value, now)
                run == run_callbacks(callbacks, 1, <<>>)
            IN  /\ last_trigger_times' =
                       IF run.pc = "awaiting" THEN last_trigger_times
                       ELSE [last_trigger_times EXCEPT
                                ![RuleDef(rule).rule_id] = now]
                /\ alert_history' = Append(alert_history, alert)
                /\ UNCHANGED now
                /\ calls' = [calls EXCEPT ![c] = CallAfter(alert, run)]
    /\ UNCHANGED <<ingestVars, calc, simVars, tasks, rules, enabled, callbacks>>

\* check_rule from its first line to its first suspension or its return, on
\* the variables of the engine
check_rule(c, rule, value) ==
    /\ calls[c].pc = "idle"
    /\ Len(alert_history) < MaxAlerts
    /\ IF \/ rule_disabled(rule)
          \/ cooldown_active(rule, now)
          \/ condition(rule, value) # "True"
       THEN /\ calls' = [calls EXCEPT ![c] =
                  CallNoAlert(IF rule_disabled(rule) THEN "disabled"
                              ELSE IF cooldown_active(rule, now) THEN "cooldown"
                              ELSE IF condition(rule, value) = "raise"
                              THEN "condition error"
                              ELSE "condition false")]
            /\ UNCHANGED <<alert_history, last_trigger_times, now>>
       ELSE LET alert == build_alert(rule, value, now)
            IN  /\ last_trigger_times' =
                       [last_trigger_times EXCEPT ![RuleDef(rule).rule_id] = now]
                /\ alert_history' = Append(alert_history, alert)
                /\ UNCHANGED now
                /\ calls' = [calls EXCEPT ![c] =
                       CallAfter(alert, run_callbacks(callbacks, 1, <<>>))]
    /\ UNCHANGED <<rules, enabled, callbacks>>

\* check_rule called by a caller outside an evaluation cycle
CheckRule(c, rule, value) ==
    /\ check_rule(c, rule, value)
    /\ UNCHANGED <<ingestVars, calc, simVars, tasks>>

\* The awaited listener completes and the loop goes on
ResumeCall(c) ==
    /\ calls[c].pc = "awaiting"
    /\ LET i == calls[c].next
           run == IF after_callback(callbacks[i]) = "propagate"
                  THEN [pc |-> "raised", next |-> 0, invoked |-> calls[c].invoked]
                  ELSE run_callbacks(callbacks, i + 1, calls[c].invoked)
       IN  calls' = [calls EXCEPT ![c] =
               CallAfter(calls[c].alert, run)]
    /\ UNCHANGED <<ingestVars, calc, simVars, tasks, rules, enabled, alert_history,
                   last_trigger_times, callbacks, now>>

AddRule(rule) ==
    /\ NoCallInFlight
    /\ rules' = [rules EXCEPT ![RuleDef(rule).rule_id] = rule]
    /\ UNCHANGED <<ingestVars, calc, simVars, tasks, enabled, alert_history, last_trigger_times,
                   callbacks, calls, now>>

\* remove_rule mutated: the rule's last trigger time is forgotten with it.
RemoveRuleForgetsTrigger(rule_id) ==
    /\ NoCallInFlight
    /\ rules' = [rules EXCEPT ![rule_id] = NoRule]
    /\ last_trigger_times' = [last_trigger_times EXCEPT ![rule_id] = NoTime]
    /\ UNCHANGED <<ingestVars, calc, simVars, tasks, enabled, alert_history, callbacks, calls,
                   now>>

RemoveRule(rule_id) ==
    /\ NoCallInFlight
    /\ rules' = [rules EXCEPT ![rule_id] = NoRule]
    /\ UNCHANGED <<ingestVars, calc, simVars, tasks, enabled, alert_history, last_trigger_times,
                   callbacks, calls, now>>

EnableRule(rule_id) ==
    /\ NoCallInFlight
    /\ enabled' = IF rules[rule_id] # NoRule
                  THEN [enabled EXCEPT ![rules[rule_id]] = TRUE]
                  ELSE enabled
    /\ UNCHANGED <<ingestVars, calc, simVars, tasks, rules, alert_history, last_trigger_times,
                   callbacks, calls, now>>

DisableRule(rule_id) ==
    /\ NoCallInFlight
    /\ enabled' = IF rules[rule_id] # NoRule
                  THEN [enabled EXCEPT ![rules[rule_id]] = FALSE]
                  ELSE enabled
    /\ UNCHANGED <<ingestVars, calc, simVars, tasks, rules, alert_history, last_trigger_times,
                   callbacks, calls, now>>

RegisterCallback(listener) ==
    /\ NoCallInFlight
    /\ Len(callbacks) < MaxListeners
    /\ callbacks' = Append(callbacks, listener)
    /\ UNCHANGED <<ingestVars, calc, simVars, tasks, rules, enabled, alert_history,
                   last_trigger_times, calls, now>>

\* Time passes between two calls
Advance(d) ==
    /\ now + d <= MaxTime
    /\ now' = now + d
    /\ UNCHANGED <<ingestVars, calc, simVars, tasks, alertVars>>

NextAlert ==
    \/ \E r \in RuleObjs, v \in Values : CheckRule(1, r, v)
    \/ ResumeCall(1)
    \/ \E r \in RegistryRules : AddRule(r)
    \/ \E r \in RegistryRules : RemoveRule(RuleDef(r).rule_id)
    \/ \E r \in RegistryRules : EnableRule(RuleDef(r).rule_id)
    \/ \E r \in RegistryRules : DisableRule(RuleDef(r).rule_id)
    \/ \E l \in Listeners : RegisterCallback(l)
    \/ \E d \in {30, 31} : Advance(d)

SpecAlert == Init /\ [][NextAlert]_vars

----------------------------------------------------------------------------
(* Evaluation tasks: _compute_analytics run by cooperatively scheduled     *)
(* tasks of one event loop.  A task is suspended only at an await; between *)
(* two awaits its code runs without interleaving.                          *)

\* current_zscore is NaN (pd.notna fails, main.py line 252)
NaN == 9999

TaskZScores == {-250, 10, 250, NaN}
TaskSpreads == {18, 20, 21}

\* Lines 204-249: the statistics are computed and the task awaits the cache
\* writes of lines 247-249.
TaskCompute(t) ==
    /\ tasks[t].pc = "idle"
    /\ \E z \in TaskZScores, s \in TaskSpreads :
           tasks' = [tasks EXCEPT ![t] =
                        [pc |-> "computed", zscore |-> z, spread |-> s]]
    /\ UNCHANGED <<ingestVars, calc, simVars, alertVars, now>>

\* Lines 252-281 of a cycle on simulator `self`: check_entry_signal, then
\* check_exit_signal, with the statistics the task holds.
evaluate_positions(self, zscore, spread, t) ==
    LET o == Observation(spread)
        entered == check_entry_signal(self, zscore, o.spread, o.price_1,
                                      o.price_2, o.hedge_ratio, t).self
    IN  check_exit_signal(entered, zscore, o.spread, o.price_1, o.price_2, t).self

\* Lines 252-288 mutated: _close_position awaits between the capital update
\* and the rest of the close sequence.
TaskEvaluateCloseSuspends(t) ==
    \/ /\ tasks[t].pc = "computed"
       /\ Len(sim.closed_trades) < MaxTrades
       /\ LET z == tasks[t].zscore
              o == Observation(tasks[t].spread)
              entered == IF z = NaN THEN sim
                         ELSE check_entry_signal(sim, z, o.spread, o.price_1,
                                  o.price_2, o.hedge_ratio, now).self
              pnl == calculate_pnl(entered, o.spread).pnl
              exits == /\ z # NaN
                       /\ entered.current_position # NoPosition
                       /\ exit_reason(entered.current_position, z, pnl) # ""
          IN  IF exits
              THEN /\ sim' = close_update_capital(entered, pnl)
                   /\ tasks' = [tasks EXCEPT ![t].pc = "closing"]
              ELSE /\ sim' = IF z = NaN THEN sim
                             ELSE evaluate_positions(sim, z, tasks[t].spread, now)
                   /\ tasks' = [tasks EXCEPT ![t].pc = "evaluated"]
       /\ UNCHANGED <<ingestVars, calc, simRet, alertVars, now>>
    \/ /\ tasks[t].pc = "closing"
       /\ LET p == calculate_pnl(sim, tasks[t].spread)
              trade == closed_trade(sim, sim.current_position, tasks[t].zscore,
                                    now, p)
          IN  sim' = close_clear_position(close_append_trade(
                         close_update_counts(close_update_drawdown(sim), p.pnl),
                         trade))
       /\ tasks' = [tasks EXCEPT ![t].pc = "evaluated"]
       /\ UNCHANGED <<ingestVars, calc, simRet, alertVars, now>>

\* Lines 252-288: the simulator block runs to the next await (the cache
\* write of line 288); it is skipped when the z-score is NaN.
TaskEvaluate(t) ==
    /\ tasks[t].pc = "computed"
    /\ Len(sim.closed_trades) < MaxTrades
    /\ sim' = IF tasks[t].zscore = NaN THEN sim
              ELSE evaluate_positions(sim, tasks[t].zscore, tasks[t].spread, now)
    /\ tasks' = [tasks EXCEPT ![t].pc = "evaluated"]
    /\ UNCHANGED <<ingestVars, calc, simRet, alertVars, now>>

\* Lines 290-342: the rest of the cycle reads the simulator and returns.
TaskFinish(t) ==
    /\ tasks[t].pc = "evaluated"
    /\ tasks' = [tasks EXCEPT ![t] = IdleTask]
    /\ UNCHANGED <<ingestVars, calc, simVars, alertVars, now>>

NextTasks ==
    \E t \in Tasks : TaskCompute(t) \/ TaskEvaluate(t) \/ TaskFinish(t)

SpecTasks == Init /\ [][NextTasks]_vars

----------------------------------------------------------------------------
(* Several callers inside check_rule at once, interleaving at the awaits   *)
(* of the callbacks loop.                                                  *)

NextAlertTasks ==
    \/ \E c \in Callers, r \in RuleObjs, v \in Values : CheckRule(c, r, v)
    \/ \E c \in Callers : ResumeCall(c)
    \/ \E l \in Listeners : RegisterCallback(l)
    \/ \E d \in {30, 31} : Advance(d)

SpecAlertTasks == Init /\ [][NextAlertTasks]_vars

----------------------------------------------------------------------------
(* One caller firing rules, reading the recent alerts and clearing the     *)
(* history.                                                                *)

\* get_recent_alerts is called with minutes from this set
Minutes == {1, 5}

\* `a.timestamp > cutoff` (line 190), mutated: not strict.
get_recent_alerts_nonstrict(minutes, t) ==
    SelectSeq(alert_history, LAMBDA a : a.timestamp >= t - 60 * minutes)

\* get_recent_alerts at time t: cutoff = now - timedelta(minutes)
get_recent_alerts(minutes, t) ==
    SelectSeq(alert_history, LAMBDA a : a.timestamp > t - 60 * minutes)

GetRecentAlerts(c, minutes) ==
    /\ calls[c].pc = "idle"
    /\ calls' = [calls EXCEPT ![c] =
           [pc |-> "idle", at |-> "get_recent_alerts", alert |-> RetNone,
            ret |-> [kind |-> "alerts", minutes |-> minutes,
                     alerts |-> get_recent_alerts(minutes, now)],
            next |-> 0, invoked |-> <<>>]]
    /\ UNCHANGED <<ingestVars, calc, simVars, tasks, rules, enabled, alert_history,
                   last_trigger_times, callbacks, now>>

ClearHistory ==
    /\ NoCallInFlight
    /\ alert_history' = <<>>
    /\ UNCHANGED <<ingestVars, calc, simVars, tasks, rules, enabled, last_trigger_times,
                   callbacks, calls, now>>

NextAlertHistory ==
    \/ \E r \in RuleObjs, v \in Values : CheckRule(1, r, v)
    \/ ResumeCall(1)
    \/ \E l \in Listeners : RegisterCallback(l)
    \/ \E m \in Minutes : GetRecentAlerts(1, m)
    \/ ClearHistory
    \/ \E d \in {30, 31} : Advance(d)

SpecAlertHistory == Init /\ [][NextAlertHistory]_vars

----------------------------------------------------------------------------
(* RiskAnalytics: static methods, applied to arguments drawn from small    *)
(* sets.  A float is an exact fraction [num, den] with den > 0.            *)

Frac(n, d) == [num |-> n, den |-> d]

FracLess(a, b) == a.num * b.den < b.num * a.den

\* max(a, b) and min(a, b) of Python: the first argument unless the second
\* is greater (smaller)
FracMax(a, b) == IF FracLess(a, b) THEN b ELSE a
FracMin(a, b) == IF FracLess(b, a) THEN b ELSE a

\* win_rate in hundredths; avg_win and avg_loss in dollars
WinRates == {0, 1, 25, 50, 60, 99, 100}
AvgWins == {0, 1, 50, 1000}
AvgLosses == {0, 1, 50, 1000}

\* The Kelly fraction before the cap (lines 110-113):
\* (win_rate * win_loss_ratio - loss_rate) / win_loss_ratio with
\* win_loss_ratio = avg_win / abs(avg_loss), over the common denominator.
kelly_fraction(win_rate, avg_win, avg_loss) ==
    LET loss_rate == 100 - win_rate
    IN  Frac(win_rate * avg_win - loss_rate * Abs(avg_loss), 100 * avg_win)

\* calculate_kelly_criterion mutated: the result is not capped at 25%.
calculate_kelly_criterion_uncapped(win_rate, avg_win, avg_loss) ==
    IF avg_loss = 0 \/ win_rate = 0
    THEN [kind |-> "value", value |-> Frac(0, 1)]
    ELSE IF avg_win = 0
    THEN [kind |-> "ZeroDivisionError"]
    ELSE [kind |-> "value",
          value |-> FracMax(Frac(0, 1),
                            kelly_fraction(win_rate, avg_win, avg_loss))]

\* calculate_kelly_criterion: the value returned, or the error raised when
\* win_loss_ratio is 0.
calculate_kelly_criterion(win_rate, avg_win, avg_loss) ==
    IF avg_loss = 0 \/ win_rate = 0
    THEN [kind |-> "value", value |-> Frac(0, 1)]
    ELSE IF avg_win = 0
    THEN [kind |-> "ZeroDivisionError"]
    ELSE [kind |-> "value",
          value |-> FracMax(Frac(0, 1),
                            FracMin(kelly_fraction(win_rate, avg_win, avg_loss),
                                    Frac(25, 100)))]

CalculateKelly(win_rate, avg_win, avg_loss) ==
    /\ calc' = [fn |-> "calculate_kelly_criterion",
                args |-> [win_rate |-> win_rate, avg_win |-> avg_win,
                          avg_loss |-> avg_loss],
                ret |-> calculate_kelly_criterion(win_rate, avg_win, avg_loss)]
    /\ UNCHANGED <<ingestVars, simVars, tasks, alertVars, now>>

NextRisk ==
    \E w \in WinRates, aw \in AvgWins, al \in AvgLosses : CalculateKelly(w, aw, al)

SpecRisk == Init /\ [][NextRisk]_vars

----------------------------------------------------------------------------
(* SignalQualityScorer.  Scores are in thousandths of a point, z-scores,   *)
(* correlations and p-values in thousandths, half-lives in tenths of a bar, *)
(* win rates in percent, profit factors in hundredths, weights in          *)
(* hundredths; a missing optional argument is NoValue.  Divisions truncate  *)
(* to the unit.                                                            *)

EXCEPTIONAL_THRESHOLD == 90
STRONG_THRESHOLD == 75
MODERATE_THRESHOLD == 60
WEAK_THRESHOLD == 40

Point == 1000       \* one point of a score
Full == 100 * Point \* the score 100

\* A spread series of na values a followed by nb values b.
SeriesLen(s) == s.na + s.nb

\* spread.tail(lookback): the last lookback values, as counts of a and of b
SeriesTail(s, lookback) ==
    LET kb == Min(s.nb, lookback)
        ka == Min(s.na, lookback - kb)
    IN  [a |-> s.a, na |-> ka, b |-> s.b, nb |-> kb]

SeriesSum(s) == s.na * s.a + s.nb * s.b

SeriesSumSq(s) == s.na * s.a * s.a + s.nb * s.b * s.b

\* recent_spread.std() in hundredths: the sample deviation (ddof = 1) of the
\* n = 60 values of the tail, sqrt((n * sumsq - sum^2) / (n * (n - 1)))
SeriesStd(s) ==
    LET n == SeriesLen(s)
        d == n * SeriesSumSq(s) - SeriesSum(s) * SeriesSum(s)
    IN  ISqrt(Quot(d * 100, Quot(n * (n - 1), 10)) * 10)

\* calculate_zscore_score mutated: a z-score past the threshold scores its
\* excess only, without the 50 points of the threshold.
calculate_zscore_score_without_base(zscore, threshold) ==
    LET abs_zscore == Abs(zscore)
    IN  IF abs_zscore < threshold
        THEN Min(Quot(abs_zscore * 50 * Point, threshold), Full)
        ELSE Min(Quot(Min(abs_zscore - threshold, 1000) * 50 * Point, 1000), Full)

calculate_zscore_score(zscore, threshold) ==
    LET abs_zscore == Abs(zscore)
    IN  IF abs_zscore < threshold
        THEN Min(Quot(abs_zscore * 50 * Point, threshold), Full)
        ELSE LET excess == abs_zscore - threshold
             IN  Min(50 * Point + Quot(Min(excess, 1000) * 50 * Point, 1000), Full)

\* calculate_correlation_score.  abs(nan) fails every comparison, so a NaN
\* correlation reaches the last branch and min(nan, 100) is NaN.
calculate_correlation_score(correlation, threshold) ==
    LET abs_corr == Abs(correlation)
    IN  IF correlation = NaN THEN NaN
        ELSE IF abs_corr >= 850
        THEN Min(90 * Point + Quot((abs_corr - 850) * 10 * Point, 150), Full)
        ELSE IF abs_corr >= threshold
        THEN Min(70 * Point + Quot((abs_corr - threshold) * 20 * Point, 150), Full)
        ELSE IF abs_corr >= 500
        THEN Min(40 * Point + Quot((abs_corr - 500) * 30 * Point, 200), Full)
        ELSE Min(Quot(abs_corr * 40 * Point, 500), Full)

calculate_stability_score(spread, lookback) ==
    IF SeriesLen(spread) < lookback
    THEN 50 * Point
    ELSE LET recent_spread == SeriesTail(spread, lookback)
             sum == SeriesSum(recent_spread)
         IN  IF sum = 0
             THEN 0
             ELSE LET cv == Quot(SeriesStd(recent_spread) * 10 * lookback, Abs(sum))
                  IN  IF cv < 100
                      THEN Min(90 * Point + Quot((100 - cv) * 10 * Point, 100), Full)
                      ELSE IF cv < 300
                      THEN Min(60 * Point + Quot((300 - cv) * 30 * Point, 200), Full)
                      ELSE Min(Max(0, 60 * Point - Quot((cv - 300) * 100 * Point, 1000)),
                               Full)

\* The half-life of a spread without mean reversion (np.inf)
Inf == 99999

\* adf_score.  A NaN p-value is not None and fails every comparison, so it
\* reaches max(0, 60 - (nan - 0.10) * 200), which is 0.
adf_score(adf_pvalue) ==
    IF adf_pvalue = NoValue THEN 50 * Point
    ELSE IF adf_pvalue = NaN THEN 0
    ELSE IF adf_pvalue < 10 THEN 100 * Point
    ELSE IF adf_pvalue < 50 THEN 80 * Point
    ELSE IF adf_pvalue < 100 THEN 60 * Point
    ELSE Max(0, 60 * Point - Quot((adf_pvalue - 100) * 200 * Point, 1000))

\* hl_score.  `half_life > 0` is false for NaN; an infinite half-life is too
\* slow and scores max(0, 70 - inf) = 0.
hl_score(half_life) ==
    IF half_life = NoValue \/ half_life = NaN \/ half_life <= 0 THEN 50 * Point
    ELSE IF half_life = Inf THEN 0
    ELSE IF 50 <= half_life /\ half_life <= 500
    THEN 100 * Point - Quot(Abs(half_life - 200) * 30 * Point, 300)
    ELSE IF half_life < 50
    THEN Quot(half_life * 70 * Point, 50)
    ELSE Max(0, 70 * Point - Quot((half_life - 500) * 2 * Point, 10))

calculate_cointegration_score(adf_pvalue, half_life) ==
    Min(Quot(adf_score(adf_pvalue), 2) + Quot(hl_score(half_life), 2), Full)

\* base_score from the win rate
win_rate_score(win_rate) ==
    IF win_rate >= 60 THEN 80 * Point + Quot((win_rate - 60) * 20 * Point, 40)
    ELSE IF win_rate >= 50 THEN 60 * Point + Quot((win_rate - 50) * 20 * Point, 10)
    ELSE Quot(win_rate * 60 * Point, 50)

\* pf_multiplier in thousandths
pf_multiplier(profit_factor) ==
    IF profit_factor = NoValue THEN 1000
    ELSE IF profit_factor >= 200
    THEN 1000 + Min(Quot((profit_factor - 200) * 10, 3), 200)
    ELSE 800 + Quot(profit_factor * 200, 200)

\* base_score after the profit factor and the sample-size adjustment
adjusted_score(win_rate, profit_factor, total_trades) ==
    LET base_score == Quot(win_rate_score(win_rate) * pf_multiplier(profit_factor),
                           1000)
    IN  IF total_trades < 5
        THEN 50 * Point + Quot((base_score - 50 * Point) * total_trades, 5)
        ELSE base_score

\* calculate_historical_score mutated: the result is not capped at 100.
calculate_historical_score_uncapped(win_rate, profit_factor, total_trades) ==
    IF total_trades = 0 \/ win_rate = NoValue
    THEN 50 * Point
    ELSE adjusted_score(win_rate, profit_factor, total_trades)

calculate_historical_score(win_rate, profit_factor, total_trades) ==
    IF total_trades = 0 \/ win_rate = NoValue
    THEN 50 * Point
    ELSE Min(adjusted_score(win_rate, profit_factor, total_trades), Full)

DefaultWeights ==
    [zscore |-> 25, correlation |-> 25, stability |-> 20, cointegration |-> 15,
     historical |-> 15]

\* round(x, 1) of a non-negative x given as n / d: the nearest tenth, a tie
\* to the even one
Round1(n, d) ==
    LET q == (10 * n) \div d
        r == (10 * n) % d
    IN  IF 2 * r > d \/ (2 * r = d /\ q % 2 = 1) THEN q + 1 ELSE q

\* The labels chosen for a composite score in hundred-thousandths of a point
quality_band(composite_score) ==
    IF composite_score >= EXCEPTIONAL_THRESHOLD * Point * 100
    THEN [quality_level |-> "Exceptional", confidence |-> "Very High",
          recommendation |-> "Strong Trade Signal"]
    ELSE IF composite_score >= STRONG_THRESHOLD * Point * 100
    THEN [quality_level |-> "Strong", confidence |-> "High",
          recommendation |-> "Trade with Confidence"]
    ELSE IF composite_score >= MODERATE_THRESHOLD * Point * 100
    THEN [quality_level |-> "Moderate", confidence |-> "Medium",
          recommendation |-> "Consider Trading"]
    ELSE IF composite_score >= WEAK_THRESHOLD * Point * 100
    THEN [quality_level |-> "Weak", confidence |-> "Low",
          recommendation |-> "Trade with Caution"]
    ELSE [quality_level |-> "Poor", confidence |-> "Very Low",
          recommendation |-> "Avoid Trading"]

\* calculate_composite_score: the dict returned; composite_score and the
\* components are in tenths of a point, as round(.., 1) leaves them.  A NaN
\* correlation score makes the weighted sum NaN: it fails every threshold
\* comparison, so the labels are those of the last branch, and round(nan, 1)
\* is NaN.
calculate_composite_score(zscore, correlation, spread, adf_pvalue, half_life, win_rate, profit_factor, total_trades, weights) ==
    LET zscore_score == calculate_zscore_score(zscore, 2000)
        correlation_score == calculate_correlation_score(correlation, 700)
        stability_score == calculate_stability_score(spread, 60)
        cointegration_score == calculate_cointegration_score(adf_pvalue, half_life)
        historical_score ==
            calculate_historical_score(win_rate, profit_factor, total_trades)
        composite_score ==
            zscore_score * weights.zscore
            + correlation_score * weights.correlation
            + stability_score * weights.stability
            + cointegration_score * weights.cointegration
            + historical_score * weights.historical
        undefined == correlation = NaN
        band == IF undefined THEN quality_band(0) ELSE quality_band(composite_score)
    IN  [composite_score |-> IF undefined THEN NaN
                             ELSE Round1(composite_score, Point * 100),
         quality_level |-> band.quality_level,
         confidence |-> band.confidence,
         recommendation |-> band.recommendation,
         components |->
            [zscore_score |-> Round1(zscore_score, Point),
             correlation_score |-> IF undefined THEN NaN
                                   ELSE Round1(correlation_score, Point),
             stability_score |-> Round1(stability_score, Point),
             cointegration_score |-> Round1(cointegration_score, Point),
             historical_score |-> Round1(historical_score, Point)],
         weights |-> weights]

\* Arguments of the sub-scores
SubZScores == {100 * k : k \in -40..40}
SubCorrelations == {25 * k : k \in -40..40}
SubPValues == {NoValue, NaN} \cup {5 * k : k \in 0..200}
SubHalfLives == {NoValue, NaN, Inf, -10, 0} \cup {10 * k : k \in 1..100}
SubWinRates == {NoValue} \cup {5 * k : k \in 0..20}
SubProfitFactors == {NoValue, 0, 100, 199, 200, 260, 350, 600}
SubTotalTrades == {0, 1, 3, 4, 5, 10}
SpreadSeries ==
    { [a |-> 0, na |-> 0, b |-> 0, nb |-> 0],
      [a |-> 50, na |-> 30, b |-> 50, nb |-> 29],
      [a |-> 50, na |-> 30, b |-> 50, nb |-> 30],
      [a |-> 45, na |-> 30, b |-> 55, nb |-> 30],
      [a |-> 40, na |-> 30, b |-> 60, nb |-> 30],
      [a |-> 20, na |-> 30, b |-> 80, nb |-> 30],
      [a |-> 0, na |-> 40, b |-> 100, nb |-> 50],
      [a |-> 0, na |-> 30, b |-> 100, nb |-> 30],
      [a |-> -10, na |-> 30, b |-> 10, nb |-> 30] }

\* Arguments of the composite score
ScoreZScores == {0, 1200, 2198, 2500, -3500}
ScoreCorrelations == {-1000, 0, 550, 920, 1000}
ScorePValues == {NoValue, 0, 10, 150}
ScoreHalfLives == {NoValue, 10, 200, 1000}
ScoreHistories ==
    { [win_rate |-> w, profit_factor |-> pf, total_trades |-> n] :
        w \in {NoValue, 45, 70}, pf \in {NoValue, 120, 350}, n \in {0, 3, 10} }

\* A caller's static-method call: it runs when no result is pending.
CallStatic(fn, args, ret) ==
    /\ calc = NoCalc
    /\ calc' = [fn |-> fn, args |-> args, ret |-> ret]
    /\ UNCHANGED <<ingestVars, simVars, tasks, alertVars, now>>

\* The caller takes the result.
TakeResult ==
    /\ calc # NoCalc
    /\ calc' = NoCalc
    /\ UNCHANGED <<ingestVars, simVars, tasks, alertVars, now>>

CalculateZscoreScore(zscore) ==
    CallStatic("calculate_zscore_score", [zscore |-> zscore],
               calculate_zscore_score(zscore, 2000))

CalculateCorrelationScore(correlation) ==
    CallStatic("calculate_correlation_score", [correlation |-> correlation],
               calculate_correlation_score(correlation, 700))

CalculateStabilityScore(spread) ==
    CallStatic("calculate_stability_score", [spread |-> spread],
               calculate_stability_score(spread, 60))

CalculateCointegrationScore(adf_pvalue, half_life) ==
    CallStatic("calculate_cointegration_score",
               [adf_pvalue |-> adf_pvalue, half_life |-> half_life],
               calculate_cointegration_score(adf_pvalue, half_life))

CalculateHistoricalScore(win_rate, profit_factor, total_trades) ==
    CallStatic("calculate_historical_score",
               [win_rate |-> win_rate, profit_factor |-> profit_factor,
                total_trades |-> total_trades],
               calculate_historical_score(win_rate, profit_factor, total_trades))

CalculateCompositeScore(zscore, correlation, spread, adf_pvalue, half_life, h) ==
    CallStatic("calculate_composite_score",
               [zscore |-> zscore, correlation |-> correlation, spread |-> spread,
                adf_pvalue |-> adf_pvalue, half_life |-> half_life,
                win_rate |-> h.win_rate, profit_factor |-> h.profit_factor,
                total_trades |-> h.total_trades],
               calculate_composite_score(zscore, correlation, spread, adf_pvalue,
                                         half_life, h.win_rate, h.profit_factor,
                                         h.total_trades, DefaultWeights))

NextScore ==
    \/ /\ calc = NoCalc
       /\ \/ \E z \in SubZScores : CalculateZscoreScore(z)
          \/ \E c \in SubCorrelations : CalculateCorrelationScore(c)
          \/ \E s \in SpreadSeries : CalculateStabilityScore(s)
          \/ \E p \in SubPValues, hl \in SubHalfLives :
                CalculateCointegrationScore(p, hl)
          \/ \E w \in SubWinRates, pf \in SubProfitFactors, n \in SubTotalTrades :
                CalculateHistoricalScore(w, pf, n)
          \/ \E z \in ScoreZScores, c \in ScoreCorrelations, s \in SpreadSeries,
                p \in ScorePValues, hl \in ScoreHalfLives, h \in ScoreHistories :
                CalculateCompositeScore(z, c, s, p, hl, h)
    \/ TakeResult

SpecScore == Init /\ [][NextScore]_vars

----------------------------------------------------------------------------
(* RiskAnalytics: drawdown, risk metrics and portfolio health.  Returns    *)
(* are in whole percent, VaR, CVaR, drawdown percentages, ratios and risk  *)
(* utilization in hundredths, equity and position sizes in dollars, scores *)
(* in thousandths of a point.                                             *)

\* A number returned where the code may return None
Some(v) == [kind |-> "value", value |-> v]

RECURSIVE SeqMax(_, _)
\* equity_curve.expanding().max() at position i
SeqMax(s, i) == IF i = 1 THEN s[1] ELSE Max(s[i], SeqMax(s, i - 1))

RECURSIVE SeqMinOf(_, _, _)
\* the minimum of f[1..i]
SeqMinOf(f, i, acc) == IF i = 0 THEN acc ELSE SeqMinOf(f, i - 1, Min(acc, f[i]))

\* calculate_max_drawdown of a curve of two or more positive equity values
\* (lines 203-224)
drawdown_of_curve(equity_curve) ==
    LET n == Len(equity_curve)
        running_max == [i \in 1..n |-> SeqMax(equity_curve, i)]
        drawdown == [i \in 1..n |-> equity_curve[i] - running_max[i]]
        drawdown_pct == [i \in 1..n |-> Quot(drawdown[i] * 10000, running_max[i])]
    IN  [max_drawdown |-> Abs(SeqMinOf(drawdown, n, 0)),
         max_drawdown_pct |-> Abs(SeqMinOf(drawdown_pct, n, 0)),
         current_drawdown |-> Abs(drawdown[n]),
         current_drawdown_pct |-> Abs(drawdown_pct[n]),
         peak_equity |-> running_max[n]]

\* calculate_max_drawdown mutated: a curve of one point reports its point
\* as a drawdown.
calculate_max_drawdown_point_as_drawdown(equity_curve) ==
    IF Len(equity_curve) < 2
    THEN [max_drawdown |-> 0, max_drawdown_pct |-> 0,
          current_drawdown |-> IF Len(equity_curve) > 0 THEN equity_curve[1] ELSE 0,
          current_drawdown_pct |-> 0, peak_equity |-> 0]
    ELSE drawdown_of_curve(equity_curve)

calculate_max_drawdown(equity_curve) ==
    IF Len(equity_curve) < 2
    THEN [max_drawdown |-> 0, max_drawdown_pct |-> 0, current_drawdown |-> 0,
          current_drawdown_pct |-> 0,
          peak_equity |-> IF Len(equity_curve) > 0 THEN equity_curve[1] ELSE 0]
    ELSE drawdown_of_curve(equity_curve)

\* A series of returns with na values a followed by nb values b, sorted
SortedAt(s, i) ==
    LET lo == Min(s.a, s.b)
        hi == Max(s.a, s.b)
        nlo == IF s.a <= s.b THEN s.na ELSE s.nb
    IN  IF i < nlo THEN lo ELSE hi

\* np.percentile(returns, q) for q = 5 and q = 1, by linear interpolation
\* between the sorted values around position q / 100 * (n - 1)
percentile(returns, q) ==
    LET n == SeriesLen(returns)
        idx == (q * (n - 1)) \div 100
        frac == (q * (n - 1)) % 100
        below == SortedAt(returns, idx)
        above == SortedAt(returns, Min(idx + 1, n - 1))
    IN  100 * below + frac * (above - below)

calculate_var(returns, q) ==
    IF SeriesLen(returns) < 20 THEN RetNone
    ELSE Some(Abs(percentile(returns, q)))

\* returns[returns <= var_threshold].mean()
calculate_expected_shortfall(returns, q) ==
    IF SeriesLen(returns) < 20 THEN RetNone
    ELSE LET var_threshold == percentile(returns, q)
             na == IF 100 * returns.a <= var_threshold THEN returns.na ELSE 0
             nb == IF 100 * returns.b <= var_threshold THEN returns.nb ELSE 0
         IN  Some(Abs(Quot(100 * (na * returns.a + nb * returns.b), na + nb)))

\* Series.std() in hundredths; NaN for fewer than two values
SampleStd(s) ==
    LET n == SeriesLen(s)
        d == n * SeriesSumSq(s) - SeriesSum(s) * SeriesSum(s)
    IN  IF n < 2 THEN NaN ELSE ISqrt(Quot(d * 100, n * (n - 1)) * 100)

\* sqrt(252) in hundredths
Sqrt252 == ISqrt(252 * 10000)

risk_sharpe_ratio(returns) ==
    IF SeriesLen(returns) < 2 THEN 0
    ELSE IF SampleStd(returns) = 0 THEN 0
    ELSE Quot(SeriesSum(returns) * 100 * Sqrt252,
              SeriesLen(returns) * SampleStd(returns))

\* excess_returns[excess_returns < 0]
Downside(s) ==
    [a |-> s.a, na |-> IF s.a < 0 THEN s.na ELSE 0,
     b |-> s.b, nb |-> IF s.b < 0 THEN s.nb ELSE 0]

\* calculate_sortino_ratio; one return below zero has no deviation and the
\* ratio is NaN
calculate_sortino_ratio(returns) ==
    IF SeriesLen(returns) < 2 THEN 0
    ELSE LET downside_returns == Downside(returns)
         IN  IF SeriesLen(downside_returns) = 0 \/ SampleStd(downside_returns) = 0
             THEN 0
             ELSE IF SampleStd(downside_returns) = NaN
             THEN NaN
             ELSE Quot(SeriesSum(returns) * 100 * Sqrt252,
                       SeriesLen(returns) * SampleStd(downside_returns))

\* The truth value of an optional number: neither None nor 0
Truthy(v) == v # NoValue /\ v # 0

\* `if win_rate and avg_win and avg_loss`
kelly_inputs_given(win_rate, avg_win, avg_loss) ==
    Truthy(win_rate) /\ Truthy(avg_win) /\ Truthy(avg_loss)

\* kelly_pct: win_rate is in hundredths; above 1 it is taken as a percentage
kelly_pct(win_rate, avg_win, avg_loss) ==
    IF kelly_inputs_given(win_rate, avg_win, avg_loss)
    THEN LET w == IF win_rate > 100 THEN Quot(win_rate, 100) ELSE win_rate
             k == calculate_kelly_criterion(w, avg_win, avg_loss)
         IN  IF k.kind = "value"
             THEN Some(Frac(100 * k.value.num, k.value.den))
             ELSE k
    ELSE RetNone

calculate_risk_metrics(returns, equity_curve, win_rate, avg_win, avg_loss, current_position_size, max_position_size) ==
    LET n == SeriesLen(returns)
        var_95 == IF n >= 20 THEN calculate_var(returns, 5) ELSE RetNone
        var_99 == IF n >= 20 THEN calculate_var(returns, 1) ELSE RetNone
        cvar_95 == IF n >= 20 THEN calculate_expected_shortfall(returns, 5)
                   ELSE RetNone
        dd_metrics == calculate_max_drawdown(equity_curve)
    IN  [var_95 |-> var_95, var_99 |-> var_99, cvar_95 |-> cvar_95,
         kelly_pct |-> kelly_pct(win_rate, avg_win, avg_loss),
         sharpe_ratio |-> IF n >= 2 THEN Some(risk_sharpe_ratio(returns))
                          ELSE RetNone,
         sortino_ratio |-> IF n >= 2 THEN Some(calculate_sortino_ratio(returns))
                           ELSE RetNone,
         max_drawdown |-> dd_metrics.max_drawdown,
         max_drawdown_pct |-> dd_metrics.max_drawdown_pct,
         current_drawdown |-> dd_metrics.current_drawdown,
         current_drawdown_pct |-> dd_metrics.current_drawdown_pct,
         peak_equity |-> dd_metrics.peak_equity,
         current_exposure |-> current_position_size,
         max_exposure |-> max_position_size,
         exposure_pct |-> IF max_position_size > 0
                          THEN Quot(current_position_size * 10000, max_position_size)
                          ELSE 0,
         risk_utilization |->
            IF var_95 # RetNone /\ var_95.value # 0 /\ max_position_size > 0
            THEN Quot(var_95.value * 100, max_position_size)
            ELSE 0]

\* dd_score mutated: the band from 10 to 20 rises with the drawdown.
drawdown_score_rising_band(current_dd_pct) ==
    IF current_dd_pct < 500 THEN 100 * Point
    ELSE IF current_dd_pct < 1000 THEN 90 * Point - (current_dd_pct - 500) * 20
    ELSE IF current_dd_pct < 2000 THEN 80 * Point + (current_dd_pct - 1000) * 10
    ELSE IF current_dd_pct < 4000 THEN 70 * Point - (current_dd_pct - 2000) * 15
    ELSE Max(0, 40 * Point - (current_dd_pct - 4000) * 10)

drawdown_score(current_dd_pct) ==
    IF current_dd_pct < 500 THEN 100 * Point
    ELSE IF current_dd_pct < 1000 THEN 90 * Point - (current_dd_pct - 500) * 20
    ELSE IF current_dd_pct < 2000 THEN 80 * Point - (current_dd_pct - 1000) * 10
    ELSE IF current_dd_pct < 4000 THEN 70 * Point - (current_dd_pct - 2000) * 15
    ELSE Max(0, 40 * Point - (current_dd_pct - 4000) * 10)

\* sharpe_score mutated: an undefined Sharpe ratio scores 0.
sharpe_score_none_is_zero(sharpe) ==
    IF sharpe = RetNone THEN 0
    ELSE IF sharpe.value >= 200 THEN 100 * Point
    ELSE IF sharpe.value >= 100 THEN 70 * Point + (sharpe.value - 100) * 300
    ELSE IF sharpe.value >= 0 THEN 50 * Point + sharpe.value * 200
    ELSE Max(0, 50 * Point + sharpe.value * 500)

sharpe_score(sharpe) ==
    IF sharpe = RetNone THEN 50 * Point
    ELSE IF sharpe.value >= 200 THEN 100 * Point
    ELSE IF sharpe.value >= 100 THEN 70 * Point + (sharpe.value - 100) * 300
    ELSE IF sharpe.value >= 0 THEN 50 * Point + sharpe.value * 200
    ELSE Max(0, 50 * Point + sharpe.value * 500)

utilization_score(risk_util) ==
    IF 5000 <= risk_util /\ risk_util <= 8000 THEN 100 * Point
    ELSE IF risk_util < 5000 THEN 70 * Point + risk_util * 6
    ELSE Max(0, 100 * Point - (risk_util - 8000) * 10)

\* health_level of a health score in hundred-thousandths of a point
health_level(health_score) ==
    IF health_score >= 80 * Point * 100 THEN "Excellent"
    ELSE IF health_score >= 65 * Point * 100 THEN "Good"
    ELSE IF health_score >= 50 * Point * 100 THEN "Fair"
    ELSE IF health_score >= 35 * Point * 100 THEN "Poor"
    ELSE "Critical"

\* calculate_portfolio_health_score; health_score is in hundred-thousandths
\* of a point
calculate_portfolio_health_score(risk_metrics) ==
    LET dd_score == drawdown_score(risk_metrics.current_drawdown_pct)
        sh_score == sharpe_score(risk_metrics.sharpe_ratio)
        util_score == utilization_score(risk_metrics.risk_utilization)
        health_score == dd_score * 40 + sh_score * 35 + util_score * 25
    IN  [health_score |-> health_score,
         health_level |-> health_level(health_score),
         component_scores |->
            [drawdown_score |-> dd_score, sharpe_score |-> sh_score,
             utilization_score |-> util_score]]

\* Arguments of calculate_portfolio_health_score called on its own
HealthDrawdowns == {0, 499, 500, 501, 999, 1000, 1999, 2000, 3999, 4000, 8000, 9000}
HealthSharpes ==
    {RetNone} \cup {Some(v) : v \in {-200, -100, -1, 0, 1, 99, 100, 199, 200, 300}}
HealthUtilizations == {0, 5000, 9000}

CalculateHealth(dd, sharpe, util) ==
    LET m == [current_drawdown_pct |-> dd, sharpe_ratio |-> sharpe,
              risk_utilization |-> util]
    IN  /\ calc' = [fn |-> "calculate_portfolio_health_score", args |-> m,
                    ret |-> calculate_portfolio_health_score(m)]
        /\ UNCHANGED <<ingestVars, simVars, tasks, alertVars, now>>

NextHealth ==
    \E dd \in HealthDrawdowns, sharpe \in HealthSharpes, util \in HealthUtilizations :
        CalculateHealth(dd, sharpe, util)

SpecHealth == Init /\ [][NextHealth]_vars

\* Arguments of calculate_max_drawdown and calculate_risk_metrics
EquityCurves ==
    { <<>>, <<10000>>, <<10000, 10100>>, <<10000, 9000>>, <<10000, 11000, 9900>>,
      <<10000, 9500, 9800>>, <<10000, 6000>>, <<10000, 4000, 5000>> }
ReturnSeries ==
    { [a |-> 0, na |-> 0, b |-> 0, nb |-> 0],
      [a |-> 2, na |-> 1, b |-> 0, nb |-> 0],
      [a |-> -5, na |-> 1, b |-> 2, nb |-> 1],
      [a |-> -5, na |-> 1, b |-> 2, nb |-> 18],
      [a |-> -5, na |-> 10, b |-> 2, nb |-> 10],
      [a |-> 2, na |-> 15, b |-> 3, nb |-> 10],
      [a |-> 0, na |-> 10, b |-> 0, nb |-> 10],
      [a |-> -20, na |-> 12, b |-> -10, nb |-> 8] }
MetricWinRates == {NoValue, 0, 50, 100, 5500, 10000}
MetricAvgWins == {NoValue, 0, 75}
MetricAvgLosses == {NoValue, 0, 50, -50}
PositionSizes == {0, 500}
MaxPositionSizes == {0, 10, 2000}

CalculateMaxDrawdown(equity_curve) ==
    CallStatic("calculate_max_drawdown", [equity_curve |-> equity_curve],
               calculate_max_drawdown(equity_curve))

CalculateRiskMetrics(returns, equity_curve, win_rate, avg_win, avg_loss, size, max_size) ==
    CallStatic("calculate_risk_metrics",
               [returns |-> returns, equity_curve |-> equity_curve,
                win_rate |-> win_rate, avg_win |-> avg_win, avg_loss |-> avg_loss,
                current_position_size |-> size, max_position_size |-> max_size],
               calculate_risk_metrics(returns, equity_curve, win_rate, avg_win,
                                      avg_loss, size, max_size))

\* health = calculate_portfolio_health_score(risk_metrics) on the dict that
\* calculate_risk_metrics just returned (main.py lines 321-332)
CalculateHealthOfMetrics ==
    /\ calc.fn = "calculate_risk_metrics"
    /\ calc' = [fn |-> "calculate_portfolio_health_score", args |-> calc.ret,
                ret |-> calculate_portfolio_health_score(calc.ret)]
    /\ UNCHANGED <<ingestVars, simVars, tasks, alertVars, now>>

NextRiskMetrics ==
    \/ /\ calc = NoCalc
       /\ \/ \E e \in EquityCurves : CalculateMaxDrawdown(e)
          \/ \E r \in ReturnSeries, e \in EquityCurves, w \in MetricWinRates,
                aw \in MetricAvgWins, al \in MetricAvgLosses, s \in PositionSizes,
                m \in MaxPositionSizes :
                CalculateRiskMetrics(r, e, w, aw, al, s, m)
    \/ CalculateHealthOfMetrics
    \/ TakeResult

SpecRiskMetrics == Init /\ [][NextRiskMetrics]_vars

----------------------------------------------------------------------------
(* Properties of PositionSimulator, checked under Spec *)

Flat(self) == self.current_position = NoPosition

\* C1: the simulator holds at most one open position: an open position is
\* never replaced by another one, and check_entry_signal called while a
\* position is open returns None and changes nothing.
C1_EntryWhileOpenChangesNothing ==
    [][/\ ~Flat(sim) =>
              sim'.current_position \in {sim.current_position, NoPosition}
       /\ \A z \in ZScores, s \in Spreads :
              (~Flat(sim) /\ CheckEntry(z, s)) =>
                  (sim' = sim /\ simRet'.ret = RetNone)]_vars

C1_Witness ==
    /\ simRet.op = "check_entry_signal"
    /\ simRet.ret = RetNone
    /\ ~Flat(sim)
    /\ Abs(sim.current_position.entry_zscore) > entry_threshold

\* The four exit conditions of an open position, in the order they are tested
ExitConditions(pos, zscore, pnl) ==
    << Abs(zscore) < exit_threshold,
       \/ (pos.direction = "long" /\ zscore > 0)
       \/ (pos.direction = "short" /\ zscore < 0),
       pnl * 100 < -(pos.size * stop_loss_pct),
       pnl * 100 > pos.size * take_profit_pct >>

ExitReasons ==
    << "Mean reversion complete", "Z-score crossed zero", "Stop loss",
       "Take profit" >>

\* C2: check_exit_signal on an open position closes it iff one of the four
\* conditions holds, the reason being that of the first true one in the order
\* mean reversion, zero crossing, stop loss, take profit; if none holds the
\* position stays open and capital, counters and history are unchanged.
C2_ExitIffFirstTrueCondition ==
    [][\A z \in ZScores, s \in Spreads :
          (~Flat(sim) /\ CheckExit(z, s)) =>
              LET pos == sim.current_position
                  c == ExitConditions(pos, z, calculate_pnl(sim, s).pnl)
                  true == {i \in 1..4 : c[i]}
              IN  IF true # {}
                  THEN /\ Flat(sim')
                       /\ simRet'.ret.kind = "EXIT"
                       /\ simRet'.ret.reason =
                              ExitReasons[CHOOSE i \in true :
                                              \A j \in true : i <= j]
                  ELSE /\ simRet'.ret = RetNone
                       /\ sim'.current_position = pos
                       /\ sim'.current_capital = sim.current_capital
                       /\ sim'.total_pnl = sim.total_pnl
                       /\ sim'.win_count = sim.win_count
                       /\ sim'.loss_count = sim.loss_count
                       /\ sim'.closed_trades = sim.closed_trades]_vars

C2_Witness ==
    /\ simRet.op = "check_exit_signal"
    /\ simRet.ret.kind = "EXIT"
    /\ simRet.ret.reason = "Take profit"
    /\ Flat(sim)

\* C3: check_entry_signal opens a position iff the simulator is flat and
\* |zscore| > entry_threshold (strictly); the position is short for a positive
\* z-score and long otherwise, its size is current_capital * position_size_pct
\* at the time of entry, and its excursion trackers start at 0.
C3_EntryIffFlatAndBeyondThreshold ==
    [][\A z \in ZScores, s \in Spreads :
          CheckEntry(z, s) =>
              IF Flat(sim) /\ Abs(z) > entry_threshold
              THEN /\ simRet'.ret.kind = "ENTRY"
                   /\ ~Flat(sim')
                   /\ sim'.current_position.direction =
                          (IF z > 0 THEN "short" ELSE "long")
                   /\ simRet'.ret.direction = sim'.current_position.direction
                   /\ sim'.current_position.size =
                          Quot(sim.current_capital * position_size_pct, 100)
                   /\ sim'.max_unrealized_profit = 0
                   /\ sim'.max_unrealized_loss = 0
              ELSE /\ simRet'.ret = RetNone
                   /\ sim' = sim]_vars

C3_Witness ==
    /\ simRet.op = "check_entry_signal"
    /\ simRet.ret.kind = "ENTRY"
    /\ sim.closed_trades # <<>>
    /\ sim.current_position.size # Quot(initial_capital * position_size_pct, 100)
    /\ sim.current_position.size =
           Quot(sim.current_capital * position_size_pct, 100)

----------------------------------------------------------------------------
(* Properties of the evaluation tasks, checked under SpecTasks *)

----------------------------------------------------------------------------
(* Properties of AlertEngine.check_rule, checked under SpecAlert *)

CooldownOf(rule_id) ==
    RuleDef(CHOOSE r \in EngineRules : RuleDef(r).rule_id = rule_id).cooldown_seconds

\* Any two alerts of the history with the same rule_id are at least the
\* rule's cooldown apart.
AlertsCooldownApart ==
    \A i, j \in 1..Len(alert_history) :
        (i < j /\ alert_history[i].rule_id = alert_history[j].rule_id) =>
            alert_history[j].timestamp - alert_history[i].timestamp
                >= CooldownOf(alert_history[i].rule_id)

\* The time the rule last fired according to the history, or NoTime
LastFired(rule_id) ==
    LET fired == {i \in 1..Len(alert_history) :
                     alert_history[i].rule_id = rule_id}
    IN  IF fired = {} THEN NoTime
        ELSE alert_history[CHOOSE i \in fired : \A j \in fired : j <= i].timestamp

\* The rule fired less than its cooldown ago, according to the history
InWindow(r) ==
    /\ LastFired(RuleDef(r).rule_id) # NoTime
    /\ now - LastFired(RuleDef(r).rule_id) < RuleDef(r).cooldown_seconds

\* C6: once a rule has fired at t, a check_rule call for it at t' with
\* t' - t < cooldown_seconds returns no alert whatever the value, and a call
\* at t' - t >= cooldown_seconds on an enabled rule whose predicate is true
\* fires again; so two alerts of one rule_id are at least cooldown_seconds
\* apart.
C6_CooldownSuppressesThenReleases ==
    /\ [] AlertsCooldownApart
    /\ [][\A r \in RuleObjs, v \in Values :
             LET id == RuleDef(r).rule_id
                 t == LastFired(id)
             IN  (t # NoTime /\ CheckRule(1, r, v)) =>
                     IF now - t < RuleDef(r).cooldown_seconds
                     THEN /\ calls'[1].pc = "idle"
                          /\ calls'[1].ret = RetNone
                          /\ alert_history' = alert_history
                     ELSE (enabled[r] /\ condition(r, v) = "True") =>
                             /\ alert_history' =
                                    Append(alert_history, calls'[1].alert)
                             /\ calls'[1].alert.rule_id = id
                             /\ calls'[1].alert.value = v
                             /\ calls'[1].alert.timestamp = now]_vars

C6_Witness ==
    /\ Len(alert_history) = 2
    /\ alert_history[1].rule_id = "zscore_pair_2.0"
    /\ alert_history[2].rule_id = "zscore_pair_2.0"
    /\ alert_history[1].value = 250
    /\ alert_history[2].value = 300
    /\ alert_history[2].timestamp - alert_history[1].timestamp = 61

\* A call of check_rule that has fired and has left the callbacks loop
CallCompletes(c) ==
    /\ calls'[c] # calls[c]
    /\ calls'[c].pc = "idle"
    /\ calls'[c].alert # RetNone

\* C8: when a rule fires every registered listener is invoked exactly once,
\* in registration order; a listener that raises does not prevent the later
\* ones from being invoked, does not remove the alert from the history or
\* undo last_trigger_times, and check_rule still returns the Alert.
C8_EveryListenerOnceInOrder ==
    /\ [](\A c \in Callers :
             calls[c].invoked = [i \in 1..Len(calls[c].invoked) |-> i])
    /\ [][CallCompletes(1) =>
             LET alert == calls'[1].alert
             IN  /\ calls'[1].invoked = [i \in 1..Len(callbacks) |-> i]
                 /\ calls'[1].ret = [kind |-> "Alert", alert |-> alert]
                 /\ \E i \in 1..Len(alert_history') : alert_history'[i] = alert
                 /\ last_trigger_times'[alert.rule_id] = alert.timestamp]_vars

C8_Witness ==
    /\ calls[1].pc = "idle"
    /\ calls[1].ret.kind = "Alert"
    /\ Len(callbacks) = 2
    /\ calls[1].invoked = <<1, 2>>
    /\ ListenerRaises(callbacks[1])

\* The state of the engine: registry, flags, history, trigger times, listeners
engineVars == <<rules, enabled, alert_history, last_trigger_times, callbacks>>

\* C9: if rule.condition raises during check_rule the error is not
\* propagated: the call returns no alert and leaves the history, the trigger
\* times and the rest of the engine as they were, so later calls behave as if
\* the failing call had not happened.
C9_ConditionErrorIsSwallowed ==
    [][\A r \in RuleObjs, v \in Values :
          ( /\ condition(r, v) = "raise"
            /\ enabled[r]
            /\ ~InWindow(r)
            /\ CheckRule(1, r, v) ) =>
              /\ calls'[1].pc = "idle"
              /\ calls'[1].ret = RetNone
              /\ calls'[1].invoked = <<>>
              /\ UNCHANGED engineVars]_vars

C9_Witness ==
    /\ calls[1].at = "condition error"
    /\ calls[1].ret = RetNone
    /\ alert_history # <<>>
    /\ callbacks # <<>>

\* C10: whenever check_rule returns no alert (rule disabled, cooldown in
\* force, predicate false, predicate raised) the history, the trigger times
\* and the registry are unchanged and no listener is invoked; a disabled rule
\* never fires, and a rule is enabled again only by enable_rule.
C10_NoAlertChangesNothing ==
    [][/\ \A r \in RuleObjs, v \in Values :
              CheckRule(1, r, v) =>
                  /\ (calls'[1].pc = "idle" /\ calls'[1].ret = RetNone) =>
                         /\ UNCHANGED <<alert_history, last_trigger_times,
                                        rules, enabled>>
                         /\ calls'[1].invoked = <<>>
                  /\ ( \/ ~enabled[r]
                       \/ condition(r, v) # "True"
                       \/ InWindow(r) ) =>
                         (calls'[1].pc = "idle" /\ calls'[1].ret = RetNone)
       /\ \A r \in RuleObjs :
              (~enabled[r] /\ enabled'[r]) =>
                  (rules[RuleDef(r).rule_id] = r
                      /\ EnableRule(RuleDef(r).rule_id))]_vars

C10_Witness ==
    /\ calls[1].at = "disabled"
    /\ calls[1].ret = RetNone
    /\ \E r \in RuleObjs :
           /\ ~enabled[r]
           /\ LastFired(RuleDef(r).rule_id) # NoTime
           /\ ~InWindow(r)
    /\ callbacks # <<>>

----------------------------------------------------------------------------
(* Properties of concurrent check_rule calls, checked under SpecAlertTasks *)

\* C7: under concurrent check_rule invocations the cooldown check-then-set is
\* atomic: at most one invocation fires per cooldown window, because the
\* trigger time and the history are written before the first suspension of
\* the call that fires.
C7_OneFiringPerWindowAmongCalls ==
    /\ AlertsCooldownApart
    /\ \A c \in Callers :
           calls[c].pc = "awaiting" =>
               /\ \E i \in 1..Len(alert_history) :
                      alert_history[i] = calls[c].alert
               /\ last_trigger_times[calls[c].alert.rule_id]
                      >= calls[c].alert.timestamp

C7_Witness ==
    /\ calls[1].pc = "awaiting"
    /\ calls[2].pc = "awaiting"
    /\ calls[1].alert.rule_id = calls[2].alert.rule_id
    /\ calls[1].alert.timestamp < calls[2].alert.timestamp

----------------------------------------------------------------------------
(* Properties of the alert history, checked under SpecAlertHistory *)

\* C11: alert_history is append-only and ordered by non-decreasing
\* timestamp, and only clear_history empties it; get_recent_alerts(N) returns
\* exactly the alerts later than now minus N minutes, so right after the first
\* trigger get_recent_alerts(5) returns one alert, and still one after a
\* check suppressed by the cooldown.
C11_HistoryAppendOnlyAndRecentExact ==
    /\ [](\A i, j \in 1..Len(alert_history) :
             i < j => alert_history[i].timestamp <= alert_history[j].timestamp)
    /\ [][/\ alert_history' # alert_history =>
                 \/ /\ Len(alert_history') = Len(alert_history) + 1
                    /\ SubSeq(alert_history', 1, Len(alert_history))
                           = alert_history
                 \/ /\ alert_history' = <<>>
                    /\ ClearHistory
          /\ \A m \in Minutes :
                 GetRecentAlerts(1, m) =>
                     LET kept == {i \in 1..Len(alert_history) :
                                     alert_history[i].timestamp > now - 60 * m}
                         got == calls'[1].ret.alerts
                     IN  /\ Len(got) = Cardinality(kept)
                         /\ \A k \in 1..Len(got) :
                                \E i \in kept : got[k] = alert_history[i]
                         /\ \A k, l \in 1..Len(got) :
                                k < l => got[k].timestamp <= got[l].timestamp
                         /\ alert_history' = alert_history
          /\ ( /\ Len(alert_history) = 1
               /\ now = alert_history[1].timestamp
               /\ GetRecentAlerts(1, 5) ) =>
                 calls'[1].ret.alerts = alert_history]_vars

C11_Witness ==
    /\ calls[1].at = "get_recent_alerts"
    /\ calls[1].ret.minutes = 1
    /\ Len(alert_history) = 2
    /\ Len(calls[1].ret.alerts) = 1
    /\ calls[1].ret.alerts[1] = alert_history[2]

----------------------------------------------------------------------------
(* Properties of the trade history and the counters, checked under         *)
(* SpecCloses                                                              *)

\* The closed trades with a positive pnl
Winners(trades) == {i \in 1..Len(trades) : trades[i].pnl > 0}

\* C12: a close with pnl > 0 counts as a win and one with pnl <= 0 (0
\* included) as a loss; win_count + loss_count is the number of closed
\* trades, win_count is the number of them with pnl > 0, and the win_rate of
\* get_performance_metrics is 100 * (trades with pnl > 0) / total_trades.
C12_WinLossCountsMatchHistory ==
    /\ [](/\ sim.win_count + sim.loss_count = Len(sim.closed_trades)
          /\ sim.win_count = Cardinality(Winners(sim.closed_trades)))
    /\ [][/\ Len(sim'.closed_trades) > Len(sim.closed_trades) =>
                 LET pnl == sim'.closed_trades[Len(sim'.closed_trades)].pnl
                 IN  IF pnl > 0
                     THEN /\ sim'.win_count = sim.win_count + 1
                          /\ sim'.loss_count = sim.loss_count
                     ELSE /\ sim'.win_count = sim.win_count
                          /\ sim'.loss_count = sim.loss_count + 1
          /\ (sim.closed_trades # <<>> /\ GetPerformanceMetrics) =>
                 simRet'.ret.win_rate =
                     Quot(100 * 100 * Cardinality(Winners(sim.closed_trades)),
                          Len(sim.closed_trades))]_vars

C12_Witness ==
    /\ simRet.op = "get_performance_metrics"
    /\ Len(sim.closed_trades) = 2
    /\ sim.closed_trades[1].pnl > 0
    /\ sim.closed_trades[2].pnl = 0
    /\ sim.win_count = 1
    /\ sim.loss_count = 1
    /\ simRet.ret.win_rate = 5000

\* current_capital after the k-th close, from the trade history
CapitalAfter(trades, k) == initial_capital + SumPnl(SubSeq(trades, 1, k))

\* The highest capital among the initial one and those after closes 1..k
PeakAfter(trades, k) ==
    LET caps == {CapitalAfter(trades, j) : j \in 0..k}
    IN  CHOOSE c \in caps : \A d \in caps : d <= c

\* The drawdown at the k-th close, in millionths
DrawdownAt(trades, k) ==
    Quot((PeakAfter(trades, k) - CapitalAfter(trades, k)) * 1000000,
         PeakAfter(trades, k))

\* C13: peak_capital is the maximum of initial_capital and every
\* current_capital reached after a close (so peak_capital >= current_capital),
\* max_drawdown is the maximum over all closes of
\* (peak_capital - current_capital) / peak_capital, it never decreases and is
\* at least the current drawdown.
C13_PeakAndDrawdownAreRunningMaxima ==
    /\ [](LET trades == sim.closed_trades
              n == Len(trades)
              dds == {DrawdownAt(trades, k) : k \in 1..n} \cup {0}
          IN  /\ sim.peak_capital = PeakAfter(trades, n)
              /\ sim.peak_capital >= sim.current_capital
              /\ sim.peak_capital >= initial_capital
              /\ sim.max_drawdown \in dds
              /\ \A d \in dds : d <= sim.max_drawdown
              /\ sim.max_drawdown >=
                     Quot((sim.peak_capital - sim.current_capital) * 1000000,
                          sim.peak_capital))
    /\ [][/\ sim'.max_drawdown >= sim.max_drawdown
          /\ sim'.peak_capital >= sim.peak_capital]_vars

C13_Witness ==
    /\ Len(sim.closed_trades) = 2
    /\ sim.closed_trades[1].pnl < 0
    /\ sim.closed_trades[2].pnl > 0
    /\ sim.current_capital < sim.peak_capital
    /\ sim.max_drawdown >
           Quot((sim.peak_capital - sim.current_capital) * 1000000,
                sim.peak_capital)

\* C14: closed_trades is append-only: no operation removes, reorders or
\* modifies a recorded trade; its length never decreases and every recorded
\* trade is the same in all later states.
C14_ClosedTradesAppendOnly ==
    [][/\ Len(sim'.closed_trades) >= Len(sim.closed_trades)
       /\ \A i \in 1..Len(sim.closed_trades) :
              sim'.closed_trades[i] = sim.closed_trades[i]
       /\ (GetTradeHistory \/ GetPerformanceMetrics) => sim' = sim
       /\ GetTradeHistory =>
              /\ Len(simRet'.ret.rows) = Len(sim.closed_trades)
              /\ \A i \in 1..Len(sim.closed_trades) :
                     simRet'.ret.rows[i].pnl = sim.closed_trades[i].pnl]_vars

C14_Witness ==
    /\ simRet.op = "get_trade_history"
    /\ Len(simRet.ret.rows) = 2
    /\ Len(sim.closed_trades) = 2
    /\ sim.closed_trades[1] # sim.closed_trades[2]
    /\ sim.current_position # NoPosition

----------------------------------------------------------------------------
(* Properties of the metrics and of the exit priority, checked under Spec *)

\* The keys of the dict get_performance_metrics returns for a history that
\* is not empty (with the tag of the model's record)
MetricsFields ==
    {"kind", "total_trades", "win_rate", "avg_win", "avg_loss",
     "profit_factor", "sharpe_ratio", "max_drawdown", "total_pnl",
     "total_return", "current_capital", "peak_capital"}

\* C15: get_performance_metrics on an empty history returns total_trades = 0
\* and a neutral value for every field of the metrics result (win_rate,
\* avg_win, avg_loss, profit_factor, sharpe_ratio, max_drawdown, total_pnl,
\* total_return, current_capital, peak_capital): the same set of fields as
\* for a history that is not empty.
C15_EmptyMetricsHaveEveryField ==
    simRet.op = "get_performance_metrics" =>
        /\ DOMAIN simRet.ret = MetricsFields
        /\ simRet.ret.total_trades = 0 =>
               /\ simRet.ret.win_rate = 0
               /\ simRet.ret.avg_win = 0
               /\ simRet.ret.avg_loss = 0
               /\ simRet.ret.profit_factor = 0
               /\ simRet.ret.sharpe_ratio = 0
               /\ simRet.ret.max_drawdown = 0
               /\ simRet.ret.total_pnl = 0
               /\ simRet.ret.total_return = 0
               /\ simRet.ret.current_capital = sim.current_capital
               /\ simRet.ret.peak_capital = sim.peak_capital

\* The z-score has crossed zero relative to the direction of the position
CrossedZero(pos, zscore) ==
    \/ (pos.direction = "long" /\ zscore > 0)
    \/ (pos.direction = "short" /\ zscore < 0)

\* The unrealized pnl of the open position is below the stop-loss level
PastStopLoss(self, spread) ==
    calculate_pnl(self, spread).pnl * 100
        < -(self.current_position.size * stop_loss_pct)

\* C16 as stated: an open position past its stop-loss level whose z-score
\* has also crossed zero is closed with the reason "Mean reversion complete".
C16_CrossedPastStopIsMeanReversion ==
    [][\A z \in ZScores, s \in Spreads :
          ( /\ ~Flat(sim)
            /\ CrossedZero(sim.current_position, z)
            /\ PastStopLoss(sim, s)
            /\ CheckExit(z, s) ) =>
              /\ simRet'.ret.kind = "EXIT"
              /\ simRet'.ret.reason = "Mean reversion complete"]_vars

\* C16, amended: an open position past its stop-loss level whose z-score has
\* also crossed zero is closed with the reason "Z-score crossed zero", or
\* "Mean reversion complete" when |zscore| < exit_threshold as well; never
\* with "Stop loss".
C16_CrossedPastStopIsNeverStopLoss ==
    [][\A z \in ZScores, s \in Spreads :
          ( /\ ~Flat(sim)
            /\ CrossedZero(sim.current_position, z)
            /\ PastStopLoss(sim, s)
            /\ CheckExit(z, s) ) =>
              /\ simRet'.ret.kind = "EXIT"
              /\ simRet'.ret.reason =
                     (IF Abs(z) < exit_threshold
                      THEN "Mean reversion complete"
                      ELSE "Z-score crossed zero")
              /\ Flat(sim')]_vars

C16_Witness ==
    /\ simRet.op = "check_exit_signal"
    /\ simRet.ret.kind = "EXIT"
    /\ simRet.ret.reason = "Z-score crossed zero"
    /\ Len(sim.closed_trades) = 1
    /\ sim.closed_trades[1].direction = "short"
    /\ sim.closed_trades[1].exit_zscore < 0
    /\ sim.closed_trades[1].pnl * 100
           < -(sim.closed_trades[1].size * stop_loss_pct)

----------------------------------------------------------------------------
(* Properties of RiskAnalytics, checked under SpecRisk *)

\* C17: calculate_kelly_criterion returns a value in [0, 0.25] for every
\* win_rate in [0, 1], avg_win > 0 and avg_loss > 0 (win_rate = 1 and a very
\* small avg_loss included), and exactly 0 when avg_loss = 0 or win_rate = 0.
C17_KellyWithinQuarter ==
    calc.fn = "calculate_kelly_criterion" =>
        /\ (calc.args.avg_win > 0 /\ calc.args.avg_loss > 0) =>
               /\ calc.ret.kind = "value"
               /\ calc.ret.value.den > 0
               /\ calc.ret.value.num >= 0
               /\ 4 * calc.ret.value.num <= calc.ret.value.den
        /\ (calc.args.avg_loss = 0 \/ calc.args.win_rate = 0) =>
               /\ calc.ret.kind = "value"
               /\ calc.ret.value.num = 0

C17_Witness ==
    /\ calc.fn = "calculate_kelly_criterion"
    /\ calc.args = [win_rate |-> 100, avg_win |-> 1000, avg_loss |-> 1]
    /\ calc.ret.kind = "value"
    /\ 4 * calc.ret.value.num = calc.ret.value.den

----------------------------------------------------------------------------
(* Properties of SignalQualityScorer, checked under SpecScore *)

SubScoreCalls ==
    {"calculate_zscore_score", "calculate_correlation_score",
     "calculate_stability_score", "calculate_cointegration_score",
     "calculate_historical_score"}

\* The domain of a sub-score's arguments: |correlation| <= 1, a p-value in
\* [0, 1], a half-life that is positive or missing, a win rate in [0, 100],
\* a profit factor >= 0, total_trades >= 0.
InDomain(fn, args) ==
    CASE fn = "calculate_correlation_score" -> Abs(args.correlation) <= 1000
      [] fn = "calculate_cointegration_score" ->
            /\ args.adf_pvalue = NoValue \/ args.adf_pvalue \in 0..1000
            /\ args.half_life = NoValue \/ (args.half_life > 0 /\ args.half_life # NaN)
      [] fn = "calculate_historical_score" ->
            /\ args.win_rate = NoValue \/ args.win_rate \in 0..100
            /\ args.profit_factor = NoValue \/ args.profit_factor >= 0
            /\ args.total_trades >= 0
      [] OTHER -> TRUE

\* C18: in every result of calculate_composite_score, quality_level,
\* confidence and recommendation are those of the band that contains the
\* returned composite_score (>= 90, >= 75, >= 60, >= 40, otherwise).
C18_LabelsAreThoseOfReturnedScore ==
    calc.fn = "calculate_composite_score" =>
        LET band == quality_band(calc.ret.composite_score * 10 * Point)
        IN  /\ calc.ret.quality_level = band.quality_level
            /\ calc.ret.confidence = band.confidence
            /\ calc.ret.recommendation = band.recommendation

\* C19: each of the five sub-scores lies in [0, 100] for every argument in
\* its domain, and with the default weights the composite score lies in
\* [0, 100].
C19_ScoresWithinZeroAndHundred ==
    /\ (calc.fn \in SubScoreCalls /\ InDomain(calc.fn, calc.args)) =>
           (0 <= calc.ret /\ calc.ret <= Full)
    /\ (calc.fn = "calculate_composite_score" /\ calc.ret.weights = DefaultWeights) =>
           (0 <= calc.ret.composite_score /\ calc.ret.composite_score <= 1000)

C19_Witness ==
    /\ calc.fn = "calculate_historical_score"
    /\ calc.args = [win_rate |-> 100, profit_factor |-> 350, total_trades |-> 10]
    /\ calc.ret = Full

StrongScenario(args) ==
    /\ args.zscore = 2500 /\ args.correlation = 920
    /\ args.adf_pvalue = 10 /\ args.half_life = 200
    /\ args.win_rate = 70 /\ args.profit_factor = 350 /\ args.total_trades = 10

WeakScenario(args) ==
    /\ args.zscore = 1200 /\ args.correlation = 550
    /\ args.adf_pvalue = 150 /\ args.half_life = NoValue
    /\ args.win_rate = 45 /\ args.profit_factor = 120 /\ args.total_trades = 3

ScoresStrong(ret) ==
    /\ ret.composite_score >= 10 * STRONG_THRESHOLD
    /\ ret.quality_level \in {"Strong", "Exceptional"}

ScoresWeak(ret) ==
    /\ ret.composite_score < 10 * MODERATE_THRESHOLD
    /\ ret.quality_level \in {"Weak", "Poor"}

\* C20: for any spread series, the strong scenario (zscore 2.5, correlation
\* 0.92, adf_pvalue 0.01, half_life 20, win_rate 70, profit_factor 3.5,
\* 10 trades) scores >= 75 and the weak scenario (zscore 1.2, correlation
\* 0.55, adf_pvalue 0.15, no half_life, win_rate 45, profit_factor 1.2,
\* 3 trades) scores < 60.
C20_ScenariosForAnySpread ==
    calc.fn = "calculate_composite_score" =>
        /\ StrongScenario(calc.args) => ScoresStrong(calc.ret)
        /\ WeakScenario(calc.args) => ScoresWeak(calc.ret)

\* C20 amended: the strong scenario scores >= 75 for every spread series
\* whose stability sub-score is at least 21; the weak scenario scores < 60
\* for any spread series.
C20_ScenariosForStableSpread ==
    calc.fn = "calculate_composite_score" =>
        /\ (StrongScenario(calc.args) /\ calc.ret.components.stability_score >= 210)
               => ScoresStrong(calc.ret)
        /\ WeakScenario(calc.args) => ScoresWeak(calc.ret)

C20_Witness ==
    /\ calc.fn = "calculate_composite_score"
    /\ StrongScenario(calc.args)
    /\ calc.args.spread = [a |-> 20, na |-> 30, b |-> 80, nb |-> 30]
    /\ calc.ret.components.stability_score = 295
    /\ calc.ret.quality_level = "Strong"

----------------------------------------------------------------------------
(* Further properties of PositionSimulator, checked under Spec *)

\* C28: get_unrealized_pnl returns has_position = false, pnl = 0 and
\* pnl_percent = 0 whenever the simulator is flat, and in every state it
\* reads only: position, capital, counters, trade history and the
\* max-favorable / max-adverse trackers are as before the call.
C28_UnrealizedPnlReadsOnly ==
    [][\A s \in Spreads :
          GetUnrealizedPnl(s) =>
              /\ sim' = sim
              /\ Flat(sim) =>
                     /\ simRet'.ret.has_position = FALSE
                     /\ simRet'.ret.pnl = 0
                     /\ simRet'.ret.pnl_percent = 0]_vars

C28_Witness ==
    /\ simRet.op = "get_unrealized_pnl"
    /\ Flat(sim)
    /\ Len(sim.closed_trades) = 1
    /\ sim.total_pnl # 0
    /\ simRet.ret.has_position = FALSE
    /\ simRet.ret.pnl = 0

----------------------------------------------------------------------------
(* Properties of the portfolio health score, checked under SpecHealth *)

HealthCall == "calculate_portfolio_health_score"

\* C21: calculate_portfolio_health_score does not rise when
\* current_drawdown_pct rises with the other inputs fixed (the band edges 5,
\* 10, 20 and 40 included), and does not fall when sharpe_ratio rises with
\* the other inputs fixed (the band edges 0, 1.0 and 2.0 included).
C21_HealthMonotoneInDrawdownAndSharpe ==
    [][(calc.fn = HealthCall /\ calc'.fn = HealthCall) =>
          /\ ( /\ calc'.args.sharpe_ratio = calc.args.sharpe_ratio
               /\ calc'.args.risk_utilization = calc.args.risk_utilization
               /\ calc'.args.current_drawdown_pct >= calc.args.current_drawdown_pct )
                 => calc'.ret.health_score <= calc.ret.health_score
          /\ ( /\ calc'.args.current_drawdown_pct = calc.args.current_drawdown_pct
               /\ calc'.args.risk_utilization = calc.args.risk_utilization
               /\ calc.args.sharpe_ratio # RetNone
               /\ calc'.args.sharpe_ratio # RetNone
               /\ calc'.args.sharpe_ratio.value >= calc.args.sharpe_ratio.value )
                 => calc'.ret.health_score >= calc.ret.health_score]_vars

C21_Witness ==
    /\ calc.fn = HealthCall
    /\ calc.args.current_drawdown_pct = 1000
    /\ calc.args.sharpe_ratio = Some(100)
    /\ calc.ret.component_scores.drawdown_score = 80 * Point
    /\ calc.ret.component_scores.sharpe_score = 70 * Point

----------------------------------------------------------------------------
(* Properties of the risk metrics, checked under SpecRiskMetrics *)

Degenerate(equity_curve) == Len(equity_curve) <= 1

\* C25: calculate_max_drawdown on a degenerate equity curve (0 or 1 points)
\* returns every field as zero: max_drawdown, max_drawdown_pct,
\* current_drawdown, current_drawdown_pct and peak_equity.
C25_DegenerateCurveAllZero ==
    (calc.fn = "calculate_max_drawdown" /\ Degenerate(calc.args.equity_curve)) =>
        /\ calc.ret.max_drawdown = 0
        /\ calc.ret.max_drawdown_pct = 0
        /\ calc.ret.current_drawdown = 0
        /\ calc.ret.current_drawdown_pct = 0
        /\ calc.ret.peak_equity = 0

\* C25 amended: on a degenerate equity curve the four drawdown fields are
\* zero, and peak_equity is the single point of the curve, or zero for the
\* empty curve.
C25_DegenerateCurveZeroDrawdown ==
    (calc.fn = "calculate_max_drawdown" /\ Degenerate(calc.args.equity_curve)) =>
        /\ calc.ret.max_drawdown = 0
        /\ calc.ret.max_drawdown_pct = 0
        /\ calc.ret.current_drawdown = 0
        /\ calc.ret.current_drawdown_pct = 0
        /\ calc.ret.peak_equity =
              IF calc.args.equity_curve = <<>> THEN 0 ELSE calc.args.equity_curve[1]

C25_Witness ==
    /\ calc.fn = "calculate_max_drawdown"
    /\ calc.args.equity_curve = <<10000>>
    /\ calc.ret.peak_equity = 10000
    /\ calc.ret.max_drawdown = 0

Provided(v) == v # NoValue

\* C26: calculate_risk_metrics reports var_95, var_99 and cvar_95 as None
\* exactly when fewer than 20 returns are given, sharpe_ratio and
\* sortino_ratio as None exactly when fewer than 2 are given, and kelly_pct
\* as None unless win_rate, avg_win and avg_loss are all provided; when all
\* three are provided kelly_pct is a number in [0, 25]; risk_utilization is
\* VaR95 / max_position_size * 100 when VaR is defined and 0 otherwise.
C26_NoneExactlyWhenInputsMissing ==
    calc.fn = "calculate_risk_metrics" =>
        LET n == SeriesLen(calc.args.returns)
            given == /\ Provided(calc.args.win_rate)
                     /\ Provided(calc.args.avg_win)
                     /\ Provided(calc.args.avg_loss)
        IN  /\ (calc.ret.var_95 = RetNone) <=> (n < 20)
            /\ (calc.ret.var_99 = RetNone) <=> (n < 20)
            /\ (calc.ret.cvar_95 = RetNone) <=> (n < 20)
            /\ (calc.ret.sharpe_ratio = RetNone) <=> (n < 2)
            /\ (calc.ret.sortino_ratio = RetNone) <=> (n < 2)
            /\ (calc.ret.kelly_pct = RetNone) <=> ~given
            /\ given =>
                  /\ calc.ret.kelly_pct.kind = "value"
                  /\ calc.ret.kelly_pct.value.num >= 0
                  /\ calc.ret.kelly_pct.value.num <= 25 * calc.ret.kelly_pct.value.den
            /\ calc.args.max_position_size > 0 =>
                  calc.ret.risk_utilization =
                      IF calc.ret.var_95 # RetNone
                      THEN Quot(calc.ret.var_95.value * 100,
                                calc.args.max_position_size)
                      ELSE 0

\* C27: for every dict produced by calculate_risk_metrics,
\* calculate_portfolio_health_score returns a health_score in [0, 100] equal
\* to 0.40 * drawdown_score + 0.35 * sharpe_score + 0.25 * utilization_score,
\* health_level is the band of that score (>= 80 Excellent, >= 65 Good,
\* >= 50 Fair, >= 35 Poor, otherwise Critical), and an undefined
\* sharpe_ratio contributes the sharpe_score 50.
C27_HealthIsWeightedBandedScore ==
    calc.fn = HealthCall =>
        LET c == calc.ret.component_scores
            h == calc.ret.health_score
        IN  /\ 0 <= h /\ h <= 100 * Point * 100
            /\ h = 40 * c.drawdown_score + 35 * c.sharpe_score
                   + 25 * c.utilization_score
            /\ c.drawdown_score \in 0..Full
            /\ c.sharpe_score \in 0..Full
            /\ c.utilization_score \in 0..Full
            /\ calc.ret.health_level =
                  CASE h >= 8000000 -> "Excellent"
                    [] h < 8000000 /\ h >= 6500000 -> "Good"
                    [] h < 6500000 /\ h >= 5000000 -> "Fair"
                    [] h < 5000000 /\ h >= 3500000 -> "Poor"
                    [] OTHER -> "Critical"
            /\ calc.args.sharpe_ratio = RetNone => c.sharpe_score = 50 * Point

C27_Witness ==
    /\ calc.fn = HealthCall
    /\ calc.args.sharpe_ratio = RetNone
    /\ calc.args.current_drawdown_pct = 1000
    /\ calc.ret.component_scores.sharpe_score = 50 * Point
    /\ calc.ret.health_level = "Good"

----------------------------------------------------------------------------
(* Further properties of SignalQualityScorer, checked under SpecScore *)

\* An optional statistic that is None or the undefined sentinel NaN
Missing(v) == v = NoValue \/ v = NaN

\* C22: calculate_cointegration_score treats a missing or undefined ADF
\* p-value and a missing or undefined half-life as neutral: each missing
\* half contributes 50, so with both missing the score is exactly 50.
C22_MissingHalvesAreNeutral ==
    calc.fn = "calculate_cointegration_score" =>
        /\ Missing(calc.args.adf_pvalue) =>
               calc.ret = Quot(50 * Point, 2) + Quot(hl_score(calc.args.half_life), 2)
        /\ Missing(calc.args.half_life) =>
               calc.ret = Quot(adf_score(calc.args.adf_pvalue), 2) + Quot(50 * Point, 2)
        /\ (Missing(calc.args.adf_pvalue) /\ Missing(calc.args.half_life)) =>
               calc.ret = 50 * Point

----------------------------------------------------------------------------
(* The evaluation cycle of the application: _compute_analytics on the      *)
(* simulator and the alert engine that _setup_default_alerts has filled.   *)

\* self.alert_engine.rules.values() once _setup_default_alerts has run: the
\* entry rule, then the correlation rule (a dict keeps insertion order).
DefaultRules == <<"mr_entry", "corr_break">>

\* The state __init__ leaves: the default rules and the listener
\* on_alert_triggered, a coroutine function that logs and returns.
InitCycle ==
    /\ sim = NewSimulator
    /\ simRet = [op |-> "init", ret |-> RetNone]
    /\ tasks = [t \in Tasks |-> IdleTask]
    /\ rules = [id \in RuleIds |->
                   IF \E i \in 1..Len(DefaultRules) :
                          RuleDef(DefaultRules[i]).rule_id = id
                   THEN CHOOSE r \in EngineRules :
                            RuleDef(r).rule_id = id
                   ELSE NoRule]
    /\ enabled = [r \in EngineRules |-> TRUE]
    /\ alert_history = <<>>
    /\ last_trigger_times = [id \in RuleIds |-> NoTime]
    /\ callbacks = <<"async_ok">>
    /\ calls = [c \in Callers |-> IdleCall]
    /\ now = 0
    /\ calc = NoCalc
    /\ tick_buffer = NewTickBuffer
    /\ app = NewApp
    /\ ws_client = NewClient

\* The rules of the pair the alerts loop visits (lines 340-341), in the order
\* of the registry
rules_of_pair ==
    SelectSeq(DefaultRules,
              LAMBDA r : rules[RuleDef(r).rule_id] = r /\ RuleDef(r).symbol = "pair")

\* Aligned ticks of the two symbols in the buffer (at least 60, line 216)
CycleTicks == {60, 100}
\* calculate_zscore(spread, window=60).iloc[-1], in hundredths
CycleZScores == {NaN, 10, 250}
\* The correlation of the last 100 aligned prices, in hundredths
CycleCorrelations == {50, 95}
\* adf_test(spread)['p_value'] in thousandths and calculate_half_life(spread)
\* in tenths
CycleStationarity ==
    { [p_value |-> 10, half_life |-> 200],
      [p_value |-> 150, half_life |-> Inf],
      [p_value |-> NaN, half_life |-> NaN] }

\* rolling_correlation(prices_1, prices_2, window=100).iloc[-1] (lines
\* 240-241): NaN with fewer aligned samples than the window.
current_corr(ticks, correlation) == IF ticks < 100 THEN NaN ELSE correlation

\* The spread series of a cycle: `ticks` values that end with the current one
spread_series(ticks, spread) == [a |-> 20, na |-> ticks - 1, b |-> spread, nb |-> 1]

\* float(x) of a statistic in hundredths, in the thousandths of the scorer
Thousandths(x) == IF x = NaN THEN NaN ELSE 10 * x

\* Lines 295-304: the signal quality of a cycle with locals c, from the
\* performance dict of the simulator
signal_quality_of(c, performance) ==
    LET args == [zscore |-> Thousandths(c.zscore),
                 correlation |-> Thousandths(c.corr),
                 spread |-> spread_series(c.ticks, c.spread),
                 adf_pvalue |-> c.adf_pvalue, half_life |-> c.half_life,
                 win_rate |-> Quot(performance.win_rate, 100),
                 profit_factor |-> performance.profit_factor,
                 total_trades |-> performance.total_trades]
    IN  [fn |-> "calculate_composite_score", args |-> args,
         ret |-> calculate_composite_score(args.zscore, args.correlation,
                     args.spread, args.adf_pvalue, args.half_life, args.win_rate,
                     args.profit_factor, args.total_trades, DefaultWeights)]

\* Lines 204-249: the statistics are computed and the task awaits the cache
\* writes.
CycleCompute(t) ==
    /\ tasks[t].pc = "idle"
    /\ NoCallInFlight
    /\ Len(sim.closed_trades) < MaxTrades
    /\ Len(alert_history) + Len(DefaultRules) <= MaxAlerts
    /\ \E n \in CycleTicks, z \in CycleZScores, c \in CycleCorrelations,
          s \in TaskSpreads, st \in CycleStationarity :
           tasks' = [tasks EXCEPT ![t] =
                        [pc |-> "computed", zscore |-> z, spread |-> s,
                         ticks |-> n, corr |-> current_corr(n, c),
                         adf_pvalue |-> st.p_value, half_life |-> st.half_life,
                         rule |-> 0]]
    /\ UNCHANGED <<ingestVars, calc, simVars, alertVars, now>>

\* Lines 252-307: with a z-score, the simulator is driven, its metrics are
\* read and the signal quality is computed and cached; with a NaN z-score
\* the block and the alerts loop are skipped and the cycle returns.
CycleEvaluate(t) ==
    /\ tasks[t].pc = "computed"
    /\ IF tasks[t].zscore = NaN
       THEN /\ tasks' = [tasks EXCEPT ![t] = IdleTask]
            /\ UNCHANGED <<calc, simVars>>
       ELSE LET self == evaluate_positions(sim, tasks[t].zscore,
                                           tasks[t].spread, now)
                performance == get_performance_metrics(self)
            IN  /\ sim' = self
                /\ simRet' = [op |-> "get_performance_metrics",
                              ret |-> performance]
                /\ calc' = signal_quality_of(tasks[t], performance)
                /\ tasks' = [tasks EXCEPT ![t].pc = "alerts", ![t].rule = 1]
    /\ UNCHANGED <<ingestVars, alertVars, now>>

\* Lines 339-342: the next rule of the pair is checked with
\* float(current_zscore).
CycleCheckRule(t) ==
    /\ tasks[t].pc = "alerts"
    /\ tasks[t].rule <= Len(rules_of_pair)
    /\ check_rule(1, rules_of_pair[tasks[t].rule], tasks[t].zscore)
    /\ tasks' = [tasks EXCEPT ![t].rule = @ + 1]
    /\ UNCHANGED <<ingestVars, calc, simVars>>

\* The alerts loop is over and the cycle returns.
CycleReturn(t) ==
    /\ tasks[t].pc = "alerts"
    /\ tasks[t].rule > Len(rules_of_pair)
    /\ calls[1].pc = "idle"
    /\ tasks' = [tasks EXCEPT ![t] = IdleTask]
    /\ UNCHANGED <<ingestVars, calc, simVars, alertVars, now>>

\* asyncio.sleep(5) between two cycles (line 199)
CycleSleep(d) ==
    /\ tasks[1].pc = "idle"
    /\ Advance(d)

NextCycle ==
    \/ CycleCompute(1)
    \/ CycleEvaluate(1)
    \/ CycleCheckRule(1)
    \/ ResumeCall(1)
    \/ CycleReturn(1)
    \/ \E d \in {30, 31} : CycleSleep(d)

SpecCycle == InitCycle /\ [][NextCycle]_vars

----------------------------------------------------------------------------
(* Properties of the evaluation cycle, checked under SpecCycle *)

\* C29: in an evaluation cycle an undefined statistic is never consumed as a
\* number: with an undefined z-score the cycle leaves the simulator and the
\* alert engine alone, and every signal quality the cycle emits has a
\* composite_score that is a number in [0, 100], also when the rolling
\* correlation is undefined while the z-score is defined.
C29_UndefinedStatisticNeverConsumed ==
    [][/\ (tasks[1].pc = "computed" /\ tasks[1].zscore = NaN) =>
              UNCHANGED <<calc, simVars, alertVars>>
       /\ (calc' # calc /\ calc'.fn = "calculate_composite_score") =>
              /\ calc'.ret.composite_score # NaN
              /\ calc'.ret.composite_score \in 0..1000]_vars

\* C30: each rule of the pair is checked against the metric of its
\* condition: an alert of the correlation-break rule carries the cycle's
\* rolling correlation and is fired only with that correlation below the
\* threshold; an alert of the entry rule carries the cycle's z-score.
C30_RuleCheckedAgainstItsMetric ==
    [][(tasks[1].pc = "alerts" /\ Len(alert_history') > Len(alert_history)) =>
          LET alert == alert_history'[Len(alert_history')]
          IN  IF alert.alert_type = "correlation_break"
              THEN /\ tasks[1].corr # NaN
                   /\ alert.value = tasks[1].corr
                   /\ tasks[1].corr < alert.threshold
              ELSE alert.value = tasks[1].zscore]_vars

----------------------------------------------------------------------------
(* StatisticalAnalytics: static methods, applied to arguments drawn from    *)
(* small sets.  A pd.Series is a sequence whose missing values are NaN; a   *)
(* statistic is in hundredths.                                              *)

SeriesMaxLen == 4   \* points of a series given to calculate_zscore
PairMaxLen == 3     \* points of a series given to rolling_correlation

\* The values of a point: missing, or one of two prices
PointValues == {NaN, 1, 2}

SeriesUpTo(n) == UNION {[1..k -> PointValues] : k \in 0..n}

\* (window, min_periods) of calculate_zscore and window of
\* rolling_correlation, scaled down from (60, 20) and 100; rolling() accepts
\* min_periods <= window.
ZscoreWindows == {<<2, 1>>, <<2, 2>>, <<3, 2>>, <<3, 3>>}
CorrelationWindows == {2, 3}

SumSqSeq(s) == SumSeq([i \in 1..Len(s) |-> s[i] * s[i]])

SignOf(x) == IF x < 0 THEN -1 ELSE 1

\* a / b of two floats: a zero divisor gives NaN for 0 / 0 and an infinity
\* otherwise (numpy does not raise), a NaN operand gives NaN.  `quotient` is
\* the value when the divisor is a non-zero number.
float_divide(a, b, quotient) ==
    IF a = NaN \/ b = NaN THEN NaN
    ELSE IF b = 0 THEN (IF a = 0 THEN NaN ELSE SignOf(a) * Inf)
    ELSE quotient

\* rolling(window, min_periods) mutated: a window with any observation
\* yields a value.
rolling_defined_any_observation(count, min_periods) == count >= 1

\* rolling(window, min_periods): a window yields a value when it holds at
\* least min_periods observations.
rolling_defined(count, min_periods) == count >= min_periods

\* The observations (non-missing values) of the window that ends at point i
window_at(series, i, window) ==
    SelectSeq(SubSeq(series, Max(1, i - window + 1), i), LAMBDA v : v # NaN)

\* n * sum(x^2) - sum(x)^2 of the observations: n * (n - 1) times the sample
\* variance
variance_numerator(obs) == Len(obs) * SumSqSeq(obs) - SumSeq(obs) * SumSeq(obs)

\* series.rolling(window, min_periods).std() at point i: the sample
\* deviation (ddof = 1) of the observations, NaN with fewer than two
\* observations
rolling_std_at(series, i, window, min_periods) ==
    LET obs == window_at(series, i, window)
        n == Len(obs)
    IN  IF ~rolling_defined(n, min_periods) \/ n < 2 THEN NaN
        ELSE ISqrt(Quot(variance_numerator(obs) * 10000, n * (n - 1)))

\* n times (series[i] - rolling mean at i), NaN where either is missing
deviation_at(series, i, window, min_periods) ==
    LET obs == window_at(series, i, window)
        n == Len(obs)
    IN  IF series[i] = NaN \/ ~rolling_defined(n, min_periods) THEN NaN
        ELSE n * series[i] - SumSeq(obs)

\* rolling_std.replace(0, np.nan) (line 104)
replace_zero(std) == IF std = 0 THEN NaN ELSE std

\* (series - rolling_mean) / rolling_std at point i (line 106)
zscore_at(series, i, window, min_periods) ==
    LET obs == window_at(series, i, window)
        n == Len(obs)
        dev == deviation_at(series, i, window, min_periods)
        rolling_std == replace_zero(rolling_std_at(series, i, window, min_periods))
    IN  float_divide(dev, rolling_std,
            SignOf(dev) * ISqrt(Quot(dev * dev * (n - 1) * 10000,
                                     n * variance_numerator(obs))))

calculate_zscore(series, window, min_periods) ==
    IF Len(series) < min_periods
    THEN [i \in 1..Len(series) |-> NaN]
    ELSE [i \in 1..Len(series) |-> zscore_at(series, i, window, min_periods)]

\* pd.DataFrame({'s1': series_1, 's2': series_2}).dropna(): the rows of the
\* common index where both values are present
aligned_rows(series_1, series_2) ==
    LET n == Max(Len(series_1), Len(series_2))
        row(i) == <<IF i <= Len(series_1) THEN series_1[i] ELSE NaN,
                    IF i <= Len(series_2) THEN series_2[i] ELSE NaN>>
    IN  SelectSeq([i \in 1..n |-> row(i)], LAMBDA r : r[1] # NaN /\ r[2] # NaN)

\* df['s1'].rolling(window).corr(df['s2']) at row i: the Pearson correlation
\* of the window, NaN with fewer rows than the window or with a constant
\* column (its covariance and its variance are 0, and 0 / 0 is NaN)
correlation_at(df, i, window) ==
    LET rows == SubSeq(df, Max(1, i - window + 1), i)
        n == Len(rows)
        xs == [k \in 1..n |-> rows[k][1]]
        ys == [k \in 1..n |-> rows[k][2]]
        cov == n * SumSeq([k \in 1..n |-> xs[k] * ys[k]]) - SumSeq(xs) * SumSeq(ys)
        vx == variance_numerator(xs)
        vy == variance_numerator(ys)
    IN  IF ~rolling_defined(n, window) THEN NaN
        ELSE float_divide(cov, vx * vy,
                 SignOf(cov) * ISqrt(Quot(cov * cov * 10000, vx * vy)))

rolling_correlation(series_1, series_2, window) ==
    LET df == aligned_rows(series_1, series_2)
    IN  IF Len(df) < window
        THEN [i \in 1..Len(df) |-> NaN]
        ELSE [i \in 1..Len(df) |-> correlation_at(df, i, window)]

\* The triple calculate_hedge_ratio returns below 20 aligned rows
UndefinedTriple == [hedge_ratio |-> NaN, r_squared |-> NaN, p_value |-> NaN]

\* Lengths of y and x, rows with a missing value among the common ones, and
\* what OLS(df['y'], df['x']).fit() gives on the aligned rows
HedgeLengths == {19, 20, 25}
HedgeIncomplete == {0, 1, 6}
HedgeFits == {[hedge_ratio |-> 150, r_squared |-> 95, p_value |-> 0]}

calculate_hedge_ratio(y_len, x_len, incomplete, fit) ==
    LET df_len == Min(y_len, x_len) - incomplete
    IN  IF df_len < 20 THEN UndefinedTriple ELSE fit

\* The dict adf_test returns for insufficient data or a failed test
UndefinedAdf ==
    [statistic |-> NaN, p_value |-> NaN, is_stationary |-> FALSE,
     critical_values |-> <<>>]

\* Length of the series, missing values in it, and what adfuller does on
\* the clean series: it raises, or returns a statistic (hundredths) and a
\* p-value (thousandths)
AdfLengths == {19, 20, 30}
AdfMissing == {0, 1, 11}
AdfOutcomes ==
    {[kind |-> "raise"],
     [kind |-> "result", statistic |-> -350, p_value |-> 8],
     [kind |-> "result", statistic |-> -290, p_value |-> 50],
     [kind |-> "result", statistic |-> -120, p_value |-> 650]}

\* adf_test with significance 0.05
adf_test(series_len, missing, adfuller) ==
    IF series_len < 20 THEN UndefinedAdf
    ELSE IF series_len - missing < 20 THEN UndefinedAdf
    ELSE IF adfuller.kind = "raise" THEN UndefinedAdf
    ELSE [statistic |-> adfuller.statistic, p_value |-> adfuller.p_value,
          is_stationary |-> adfuller.p_value < 50,
          critical_values |-> <<"1%", "5%", "10%">>]

\* Non-missing values of the spread, and what OLS(df['ret'], df['lag']).fit()
\* does: it raises, or fits the coefficient lambda (thousandths)
HalfLifeClean == {9, 10, 11, 15, 19, 20, 21, 30}
HalfLifeFits ==
    {[kind |-> "raise"]} \cup
    {[kind |-> "fit", lambda_coef |-> l] : l \in {-1500, -1000, -500, -100, 0, 200}}

\* -np.log(2) / np.log(1 + lambda_coef) for a negative coefficient, in
\* tenths: log of a negative number is NaN, log(0) is -inf and the quotient
\* 0; ln(0.5) = -0.693147, ln(0.9) = -0.105361.
half_life_of(lambda_coef) ==
    IF lambda_coef < -1000 THEN NaN
    ELSE IF lambda_coef = -1000 THEN 0
    ELSE IF lambda_coef = -500 THEN 10
    ELSE 66

\* (ret, lag) rows of a clean spread: diff() and shift(1) each lose the
\* first point
usable_pairs(clean) == Max(clean - 1, 0)

calculate_half_life(clean, fit) ==
    IF clean < 20 THEN NaN
    ELSE IF usable_pairs(clean) < 10 THEN NaN
    ELSE IF fit.kind = "raise" THEN NaN
    ELSE IF fit.lambda_coef >= 0 THEN Inf
    ELSE half_life_of(fit.lambda_coef)

CalculateZscore(series, window, min_periods) ==
    CallStatic("calculate_zscore",
               [series |-> series, window |-> window, min_periods |-> min_periods],
               calculate_zscore(series, window, min_periods))

RollingCorrelation(series_1, series_2, window) ==
    CallStatic("rolling_correlation",
               [series_1 |-> series_1, series_2 |-> series_2, window |-> window],
               rolling_correlation(series_1, series_2, window))

CalculateHedgeRatio(y_len, x_len, incomplete, fit) ==
    CallStatic("calculate_hedge_ratio",
               [y_len |-> y_len, x_len |-> x_len, incomplete |-> incomplete,
                fit |-> fit],
               calculate_hedge_ratio(y_len, x_len, incomplete, fit))

AdfTest(series_len, missing, adfuller) ==
    CallStatic("adf_test",
               [series_len |-> series_len, missing |-> missing,
                adfuller |-> adfuller],
               adf_test(series_len, missing, adfuller))

CalculateHalfLife(clean, fit) ==
    CallStatic("calculate_half_life", [clean |-> clean, fit |-> fit],
               calculate_half_life(clean, fit))

NextStatistics ==
    \/ /\ calc = NoCalc
       /\ \/ \E s \in SeriesUpTo(SeriesMaxLen), w \in ZscoreWindows :
                CalculateZscore(s, w[1], w[2])
          \/ \E s1 \in SeriesUpTo(PairMaxLen), s2 \in SeriesUpTo(PairMaxLen),
                w \in CorrelationWindows : RollingCorrelation(s1, s2, w)
          \/ \E ny \in HedgeLengths, nx \in HedgeLengths, k \in HedgeIncomplete,
                f \in HedgeFits : CalculateHedgeRatio(ny, nx, k, f)
          \/ \E n \in AdfLengths, k \in AdfMissing, a \in AdfOutcomes :
                AdfTest(n, k, a)
          \/ \E n \in HalfLifeClean, f \in HalfLifeFits : CalculateHalfLife(n, f)
    \/ TakeResult

SpecStatistics == Init /\ [][NextStatistics]_vars

----------------------------------------------------------------------------
(* Properties of StatisticalAnalytics, checked under SpecStatistics *)

C24_HalfLifeUndefinedOnlyBelowTenPairs ==
    calc.fn = "calculate_half_life" =>
        LET pairs == usable_pairs(calc.args.clean)
            fit == calc.args.fit
        IN  /\ calc.ret = NaN => (pairs < 10 \/ fit.kind = "raise")
            /\ (pairs >= 10 /\ fit.kind = "fit") =>
                   calc.ret = IF fit.lambda_coef >= 0 THEN Inf
                              ELSE half_life_of(fit.lambda_coef)

----------------------------------------------------------------------------
(* One caller firing rules while the registry is edited and the history is *)
(* cleared.                                                                *)

NextAlertRegistry ==
    \/ NextAlert
    \/ ClearHistory

SpecAlertRegistry == Init /\ [][NextAlertRegistry]_vars

\* C35: remove_rule, disable_rule, enable_rule and clear_history leave
\* last_trigger_times unchanged, so a rule that has fired stays suppressed
\* until its cooldown has elapsed since that firing, also after it was
\* removed and added again, disabled and enabled again, or the history was
\* cleared: an alert is appended only for a rule that never fired or whose
\* last firing is at least cooldown_seconds old.
C35_RegistryEditsKeepTriggerTimes ==
    [][/\ (\/ rules' # rules
           \/ enabled' # enabled
           \/ (alert_history # <<>> /\ alert_history' = <<>>)) =>
              UNCHANGED last_trigger_times
       /\ Len(alert_history') > Len(alert_history) =>
              LET alert == alert_history'[Len(alert_history')]
                  last_trigger == last_trigger_times[alert.rule_id]
              IN  /\ last_trigger_times'[alert.rule_id] = now
                  /\ \/ last_trigger = NoTime
                     \/ now - last_trigger >= CooldownOf(alert.rule_id)]_vars

\* The z-score rule has fired, the history was cleared and the rule removed,
\* and a check of the rule was left at the cooldown test.
C35_Witness ==
    /\ alert_history = <<>>
    /\ last_trigger_times[RuleDef("zscore").rule_id] # NoTime
    /\ rules[RuleDef("zscore").rule_id] = NoRule
    /\ calls[1].at = "cooldown"

----------------------------------------------------------------------------
(* Evaluation cycles on one simulator while the spread moves by more than  *)
(* its own size between two cycles: the spread of a regression without     *)
(* intercept lies around zero.                                             *)

\* The z-scores and spreads of the cycles
GapZScores == {-250, 10, 250}
GapSpreads == {-10, 1, 2}

\* Lines 252-274 of _compute_analytics: check_entry_signal, then
\* check_exit_signal, with the same z-score and spread.
EvaluateCycle(zscore, spread) ==
    /\ Len(sim.closed_trades) < MaxCloses
    /\ sim' = evaluate_positions(sim, zscore, spread, now)
    /\ simRet' = [op |-> "cycle", ret |-> RetNone]
    /\ UNCHANGED <<ingestVars, calc, tasks, alertVars, now>>

NextGapCycles == \E z \in GapZScores, s \in GapSpreads : EvaluateCycle(z, s)

SpecGapCycles == Init /\ [][NextGapCycles]_vars

\* C32: within one evaluation cycle the simulator changes state at most
\* once: a position opened in the cycle is not closed in it and a position
\* closed in the cycle is not opened again in it, so a cycle that records a
\* trade starts with an open position and ends flat.
C32_OneTransitionPerCycle ==
    [][Len(sim'.closed_trades) > Len(sim.closed_trades) =>
          /\ sim.current_position # NoPosition
          /\ sim'.current_position = NoPosition]_vars

----------------------------------------------------------------------------
(* One caller opening, evaluating and closing several positions in a row   *)

\* The spread moves by 5 percent, which neither the stop loss nor the take
\* profit closes
TrackerSpreads == {20, 21}

NextTrackers ==
    \/ \E z \in CloseZScores, s \in TrackerSpreads : CheckEntry(z, s)
    \/ \E z \in CloseZScores, s \in TrackerSpreads :
           CheckExitBounded(MaxCloses, z, s)

SpecTrackers == Init /\ [][NextTrackers]_vars

\* C34: every ClosedTrade has max_favorable >= max(0, pnl) and
\* max_adverse <= min(0, pnl): an entry resets both trackers to 0, the pnl
\* of the closing evaluation is folded into them before the trade is
\* recorded, and the trade carries the extremes of its own position only.
C34_TradeExtremesBoundItsPnl ==
    /\ [](\A i \in 1..Len(sim.closed_trades) :
            LET trade == sim.closed_trades[i]
            IN  /\ trade.max_favorable >= Max(0, trade.pnl)
                /\ trade.max_adverse <= Min(0, trade.pnl))
    /\ [][/\ (sim.current_position = NoPosition
              /\ sim'.current_position # NoPosition) =>
                 /\ sim'.max_unrealized_profit = 0
                 /\ sim'.max_unrealized_loss = 0
          /\ Len(sim'.closed_trades) > Len(sim.closed_trades) =>
                 LET trade == sim'.closed_trades[Len(sim'.closed_trades)]
                 IN  /\ trade.max_favorable =
                            Max(sim.max_unrealized_profit, trade.pnl)
                     /\ trade.max_adverse =
                            Min(sim.max_unrealized_loss, trade.pnl)]_vars

\* Two trades: the first saw a loss before it closed, the second closed
\* with a profit and no loss seen.
C34_Witness ==
    /\ Len(sim.closed_trades) = 2
    /\ sim.closed_trades[1].max_adverse < Min(0, sim.closed_trades[1].pnl)
    /\ sim.closed_trades[2].max_adverse = 0
    /\ sim.closed_trades[2].max_favorable > 0

----------------------------------------------------------------------------
(* The drawdown of the simulator against the drawdown of the equity curve, *)
(* checked under SpecCloses                                                *)

\* The equity curve _compute_analytics rebuilds from the trade history
\* (main.py lines 315-318): initial_capital, then the running sum of the pnl
equity_curve_of(trades) ==
    [i \in 1..(Len(trades) + 1) |->
        initial_capital + SumPnl(SubSeq(trades, 1, i - 1))]

\* C33: after any sequence of closes that leaves the capital positive, the
\* max_drawdown (%) of get_performance_metrics equals the max_drawdown_pct
\* calculate_max_drawdown computes on the equity curve rebuilt from the
\* trade history; the last point of the curve is current_capital and its
\* peak_equity is peak_capital.
C33_DrawdownIsThatOfEquityCurve ==
    (simRet.op = "get_performance_metrics" /\ sim.current_capital > 0) =>
        LET equity_curve == equity_curve_of(sim.closed_trades)
            drawdown == calculate_max_drawdown(equity_curve)
        IN  /\ Quot(simRet.ret.max_drawdown, 100) = drawdown.max_drawdown_pct
            /\ equity_curve[Len(equity_curve)] = sim.current_capital
            /\ drawdown.peak_equity = sim.peak_capital

\* The metrics after a winning trade and a losing one
C33_Witness ==
    /\ simRet.op = "get_performance_metrics"
    /\ Len(sim.closed_trades) = 2
    /\ sim.peak_capital > initial_capital
    /\ simRet.ret.max_drawdown > 0

----------------------------------------------------------------------------
(* The in-memory tick buffer: TickBuffer of src/src/storage/redis_cache.py  *)
(* A tick is its symbol and its trade_id, the number of its arrival.        *)

\* TickBuffer(max_size): main.py passes 1000, the model a size that
\* a few ticks overflow
max_size == 2

\* Ticks that arrive in one run
MaxTicks == 4

\* The count argument of get_ticks: None or a number
Counts == {NoValue, 0, 1, 2, 3}

\* Python's lst[start:]: a negative start counts from the end, and every
\* start is clamped to the list
slice_from(lst, start) ==
    LET n == Len(lst)
        lo == IF start < 0 THEN Max(n + start, 0) ELSE Min(start, n)
    IN  SubSeq(lst, lo + 1, n)

\* TickBuffer.add_tick: the buffers after the call
add_tick(self, tick) ==
    LET symbol == tick.symbol
        created == IF symbol \in DOMAIN self.buffers
                   THEN self.buffers
                   ELSE [s \in DOMAIN self.buffers \cup {symbol} |->
                            IF s = symbol THEN <<>> ELSE self.buffers[s]]
        appended == [created EXCEPT ![symbol] = Append(@, tick)]
    IN  IF Len(appended[symbol]) > max_size
        THEN [appended EXCEPT ![symbol] = slice_from(@, -max_size)]
        ELSE appended

\* TickBuffer.get_ticks: the list it returns
get_ticks(self, symbol, count) ==
    IF symbol \notin DOMAIN self.buffers THEN <<>>
    ELSE IF count = NoValue THEN self.buffers[symbol]
    ELSE slice_from(self.buffers[symbol], -count)

\* A call of add_tick with the next tick of a symbol
AddTick(symbol) ==
    /\ Len(tick_buffer.arrived) < MaxTicks
    /\ LET tick == [symbol |-> symbol, trade_id |-> Len(tick_buffer.arrived) + 1]
       IN  tick_buffer' = [buffers |-> add_tick(tick_buffer, tick),
                           ret |-> RetNone,
                           arrived |-> Append(tick_buffer.arrived, tick)]
    /\ UNCHANGED <<calc, simVars, tasks, alertVars, now, app, ws_client>>

\* A call of get_ticks
GetTicks(symbol, count) ==
    /\ tick_buffer' = [tick_buffer EXCEPT
                          !.ret = [kind |-> "ticks", symbol |-> symbol,
                                   count |-> count,
                                   ticks |-> get_ticks(tick_buffer, symbol, count)]]
    /\ UNCHANGED <<calc, simVars, tasks, alertVars, now, app, ws_client>>

NextTickBuffer ==
    \/ \E symbol \in Symbols : AddTick(symbol)
    \/ \E symbol \in Symbols, count \in Counts : GetTicks(symbol, count)

SpecTickBuffer == Init /\ [][NextTickBuffer]_vars

\* The ticks of one symbol among those that arrived, in arrival order
arrived_of(symbol) ==
    SelectSeq(tick_buffer.arrived, LAMBDA t : t.symbol = symbol)

\* The last k elements of a sequence
LastOf(seq, k) == SubSeq(seq, Len(seq) - k + 1, Len(seq))

\* What C38 says of the stored buffers: at most max_size ticks per symbol,
\* the most recently added ones of that symbol in arrival order
BuffersHoldMostRecent ==
    \A symbol \in Symbols :
        IF symbol \in DOMAIN tick_buffer.buffers
        THEN LET buf == tick_buffer.buffers[symbol]
                 all == arrived_of(symbol)
             IN  /\ Len(buf) <= max_size
                 /\ buf = LastOf(all, Min(max_size, Len(all)))
        ELSE arrived_of(symbol) = <<>>

\* What C38 says of get_ticks(symbol, count) for a count >= 0
GetTicksReturnsLastCount ==
    (tick_buffer.ret.kind = "ticks" /\ tick_buffer.ret.count # NoValue) =>
        LET r == tick_buffer.ret
            buf == IF r.symbol \in DOMAIN tick_buffer.buffers
                   THEN tick_buffer.buffers[r.symbol] ELSE <<>>
        IN  /\ Len(r.ticks) <= r.count
            /\ r.ticks = LastOf(buf, Min(r.count, Len(buf)))
            /\ \A i \in 1..Len(r.ticks) : r.ticks[i].symbol = r.symbol

\* C38: after any sequence of add_tick calls every symbol's buffer holds at
\* most max_size ticks, exactly the most recently added ticks of that symbol
\* in arrival order, and get_ticks(symbol, count) returns at most count
\* ticks, the last min(count, length) of that buffer, for every count >= 0.
C38_BufferKeepsLatestTicks ==
    /\ BuffersHoldMostRecent
    /\ GetTicksReturnsLastCount

----------------------------------------------------------------------------
(* The tick path of src/src/main.py: on_tick_received, called by the        *)
(* connect_symbol task of every symbol, and _flush_batch.  A coroutine runs *)
(* from one await to the next without interruption; the actions below are   *)
(* those segments.                                                          *)

\* BATCH_SIZE and BUFFER_FLUSH_INTERVAL (seconds) of the configuration
batch_size == 2
BUFFER_FLUSH_INTERVAL == 1

\* The wall clock stops here
MaxClock == 3

\* What a trade message carries besides its symbol: price, size and the age
\* of its timestamp in seconds
TickInputs ==
    {[price |-> 100, size |-> 1, age |-> 0], [price |-> 0, size |-> 1, age |-> 0],
     [price |-> 100, size |-> 0, age |-> 0], [price |-> 100, size |-> 1, age |-> 301]}

\* DataValidator.validate_tick, of a tick that has all its fields
validate_tick(tick) ==
    IF tick.price <= 0 \/ tick.size <= 0 THEN FALSE
    ELSE IF tick.age > 300 THEN FALSE
    ELSE TRUE

\* The elements of a list
ElementsOf(seq) == {seq[i] : i \in 1..Len(seq)}

\* on_tick_received up to `await self.redis.buffer_tick(tick)`
OnTickReceived(symbol, input) ==
    /\ app.handlers[symbol].pc = "idle"
    /\ app.received < MaxTicks
    /\ LET tick == [symbol |-> symbol, trade_id |-> app.received + 1,
                    price |-> input.price, size |-> input.size]
       IN  IF ~validate_tick(input)
           THEN /\ app' = [app EXCEPT !.received = @ + 1]
                /\ UNCHANGED tick_buffer
           ELSE /\ tick_buffer' = [buffers |-> add_tick(tick_buffer, tick),
                                   ret |-> RetNone,
                                   arrived |-> Append(tick_buffer.arrived, tick)]
                /\ app' = [app EXCEPT
                              !.received = @ + 1,
                              !.handlers[symbol] =
                                  [IdleHandler EXCEPT !.pc = "buffer_tick",
                                                      !.tick = tick]]
    /\ UNCHANGED <<calc, simVars, tasks, alertVars, now, ws_client>>

\* on_tick_received from the return of buffer_tick: the append, the flush
\* test and, when it holds, _flush_batch and insert_ticks_batch up to
\* `async with self.pool.acquire()`.  The list was just appended to, so
\* neither emptiness test returns early.
BufferTickDone(symbol) ==
    LET h == app.handlers[symbol]
        lists == [app.lists EXCEPT ![app.batch_buffer] = Append(@, h.tick)]
        flush == \/ Len(lists[app.batch_buffer]) >= batch_size
                 \/ now - app.last_flush_time > BUFFER_FLUSH_INTERVAL
    IN  /\ h.pc = "buffer_tick"
        /\ app' = [app EXCEPT
                      !.lists = lists,
                      !.appended = @ \cup {h.tick},
                      !.handlers[symbol] =
                          IF flush
                          THEN [h EXCEPT !.pc = "acquire", !.ticks = app.batch_buffer]
                          ELSE [h EXCEPT !.pc = "analytics"]]
        /\ UNCHANGED <<calc, simVars, tasks, alertVars, now, tick_buffer, ws_client>>

\* insert_ticks_batch once the connection is acquired: the rows are built
\* from the list as it is now and executemany is awaited
Acquired(symbol) ==
    LET h == app.handlers[symbol]
    IN  /\ h.pc = "acquire"
        /\ app' = [app EXCEPT
                      !.passed = @ \cup ElementsOf(app.lists[h.ticks]),
                      !.handlers[symbol] =
                          [h EXCEPT !.pc = "executemany", !.args = app.lists[h.ticks]]]
        /\ UNCHANGED <<calc, simVars, tasks, alertVars, now, tick_buffer, ws_client>>

\* executemany returns or raises, and _flush_batch runs to its end: after a
\* successful insert self.batch_buffer is bound to a new empty list, after
\* an exception nothing is written.  _check_realtime_analytics is awaited.
ExecuteMany(symbol, ok) ==
    LET h == app.handlers[symbol]
        done == [IdleHandler EXCEPT !.pc = "analytics", !.tick = h.tick]
    IN  /\ h.pc = "executemany"
        /\ IF ok
           THEN app' = [app EXCEPT
                           !.inserted = @ \cup ElementsOf(h.args),
                           !.lists = Append(@, <<>>),
                           !.batch_buffer = Len(app.lists) + 1,
                           !.last_flush_time = now,
                           !.handlers[symbol] = done]
           ELSE app' = [app EXCEPT !.handlers[symbol] = done]
        /\ UNCHANGED <<calc, simVars, tasks, alertVars, now, tick_buffer, ws_client>>

\* _check_realtime_analytics, which reads the tick buffer and the cache,
\* and the return of on_tick_received
CheckRealtimeAnalytics(symbol) ==
    /\ app.handlers[symbol].pc = "analytics"
    /\ app' = [app EXCEPT !.handlers[symbol] = IdleHandler]
    /\ UNCHANGED <<calc, simVars, tasks, alertVars, now, tick_buffer, ws_client>>

\* A second passes
ClockTick ==
    /\ now < MaxClock
    /\ now' = now + 1
    /\ UNCHANGED <<calc, simVars, tasks, alertVars, ingestVars>>

NextTickPath ==
    \/ \E symbol \in Symbols, input \in TickInputs : OnTickReceived(symbol, input)
    \/ \E symbol \in Symbols : BufferTickDone(symbol)
    \/ \E symbol \in Symbols : Acquired(symbol)
    \/ \E symbol \in Symbols, ok \in BOOLEAN : ExecuteMany(symbol, ok)
    \/ \E symbol \in Symbols : CheckRealtimeAnalytics(symbol)
    \/ ClockTick

SpecTickPath == Init /\ [][NextTickPath]_vars

\* The ticks in the list self.batch_buffer is bound to
BufferedTicks == ElementsOf(app.lists[app.batch_buffer])

\* A tick that a flush in progress still carries: in the list of a call
\* that waits for its connection, or in the rows of a running executemany
InFlight(tick) ==
    \E symbol \in Symbols :
        LET h == app.handlers[symbol]
        IN  \/ h.pc = "acquire" /\ tick \in ElementsOf(app.lists[h.ticks])
            \/ h.pc = "executemany" /\ tick \in ElementsOf(h.args)

\* Every tick that left the buffer was read by some insert_ticks_batch
\* call, or is about to be
RemovedTicksWerePassed ==
    \A tick \in app.appended :
        tick \in BufferedTicks \/ tick \in app.passed \/ InFlight(tick)

\* Every tick that left the buffer was written by a successful insert, or
\* is in an insert that has not returned
RemovedTicksWereInserted ==
    \A tick \in app.appended :
        tick \in BufferedTicks \/ tick \in app.inserted \/ InFlight(tick)

\* A flush whose insert raised leaves the buffer as it was
FailedFlushKeepsBuffer ==
    \A symbol \in Symbols :
        (/\ app.handlers[symbol].pc = "executemany"
         /\ app'.handlers[symbol].pc = "analytics"
         /\ app'.last_flush_time = app.last_flush_time
         /\ app'.inserted = app.inserted
         /\ app'.batch_buffer = app.batch_buffer)
            => app'.lists[app'.batch_buffer] = app.lists[app.batch_buffer]

\* C31: with the on_tick_received coroutines of several symbols interleaving
\* at every await, every validated tick appended to batch_buffer is passed
\* to insert_ticks_batch in some flush before it leaves the buffer, none is
\* discarded without having been inserted, and a failed flush keeps the
\* buffer's ticks for the next flush.
C31_NoBufferedTickIsLost ==
    /\ [](RemovedTicksWerePassed /\ RemovedTicksWereInserted)
    /\ [][FailedFlushKeepsBuffer]_vars

----------------------------------------------------------------------------
(* The stream client: BinanceWebSocketClient of                             *)
(* src/src/ingestion/websocket_client.py.  Every symbol has a connect_symbol *)
(* task; the actions are the segments of that coroutine between two awaits. *)

\* MAX_RECONNECT_ATTEMPTS of the configuration (the constructor's default is
\* 10); large enough for the delay to reach its cap
max_reconnect_attempts == 7

\* What websockets.connect and the open stream can end with: a
\* WebSocketException, or an exception of another class
ConnectOutcomes == {"ok", "ws_error", "error"}
StreamEndings == {"closed", "ws_error", "error"}

\* A message of the stream: a trade event, another event, or text that is
\* not JSON
Messages == {"trade", "other", "garbage"}

\* The except branch of a WebSocketException, up to asyncio.sleep(delay)
backoff(stream) ==
    LET reconnect_count == stream.reconnect_count + 1
    IN  [pc |-> "sleep", reconnect_count |-> reconnect_count,
         delay |-> Min(2 ^ reconnect_count, 60),
         failures |-> stream.failures + 1]

\* The connection is open: the counter is reset and the first message awaited
connected_keeps_count(stream) ==
    [stream EXCEPT !.pc = "recv", !.failures = 0]

connected(stream) ==
    [stream EXCEPT !.pc = "recv", !.reconnect_count = 0, !.failures = 0]

\* start(): running is set and one task per symbol is created
Start ==
    /\ ~ws_client.started
    /\ ws_client' = [ws_client EXCEPT
                        !.running = TRUE, !.started = TRUE,
                        !.streams = [s \in Symbols |-> [NoStream EXCEPT !.pc = "while"]]]
    /\ UNCHANGED <<calc, simVars, tasks, alertVars, now, tick_buffer, app>>

\* stop(): running is cleared
Stop ==
    /\ ws_client.started /\ ~ws_client.stopped
    /\ ws_client' = [ws_client EXCEPT !.running = FALSE, !.stopped = TRUE]
    /\ UNCHANGED <<calc, simVars, tasks, alertVars, now, tick_buffer, app>>

\* The test of the while loop, and the call of websockets.connect
WhileTest(symbol) ==
    LET stream == ws_client.streams[symbol]
    IN  /\ stream.pc = "while"
        /\ ws_client' = [ws_client EXCEPT !.streams[symbol].pc =
                            IF /\ ws_client.running
                               /\ stream.reconnect_count < max_reconnect_attempts
                            THEN "connect" ELSE "done"]
        /\ UNCHANGED <<calc, simVars, tasks, alertVars, now, tick_buffer, app>>

\* websockets.connect returns or raises
Connect(symbol, outcome) ==
    LET stream == ws_client.streams[symbol]
    IN  /\ stream.pc = "connect"
        /\ ws_client' = [ws_client EXCEPT !.streams[symbol] =
                            CASE outcome = "ok" -> connected(stream)
                              [] outcome = "ws_error" -> backoff(stream)
                              [] OTHER -> [stream EXCEPT !.pc = "done"]]
        /\ UNCHANGED <<calc, simVars, tasks, alertVars, now, tick_buffer, app>>

\* The stream yields a message: the loop is left when running is false;
\* a trade event is normalised and on_message awaited; anything else is
\* logged or skipped and the next message awaited
Receive(symbol, message) ==
    LET stream == ws_client.streams[symbol]
    IN  /\ stream.pc = "recv"
        /\ ws_client' = [ws_client EXCEPT !.streams[symbol].pc =
                            IF ~ws_client.running THEN "while"
                            ELSE IF message = "trade" THEN "on_message"
                            ELSE "recv"]
        /\ UNCHANGED <<calc, simVars, tasks, alertVars, now, tick_buffer, app>>

\* on_message returns, or raises an exception that is logged
OnMessageReturn(symbol) ==
    /\ ws_client.streams[symbol].pc = "on_message"
    /\ ws_client' = [ws_client EXCEPT !.streams[symbol].pc = "recv"]
    /\ UNCHANGED <<calc, simVars, tasks, alertVars, now, tick_buffer, app>>

\* The open stream ends: closed normally (the iteration stops), with a
\* WebSocketException, or with another exception
StreamEnds(symbol, ending) ==
    LET stream == ws_client.streams[symbol]
    IN  /\ stream.pc = "recv"
        /\ ws_client' = [ws_client EXCEPT !.streams[symbol] =
                            CASE ending = "closed" -> [stream EXCEPT !.pc = "while"]
                              [] ending = "ws_error" -> backoff(stream)
                              [] OTHER -> [stream EXCEPT !.pc = "done"]]
        /\ UNCHANGED <<calc, simVars, tasks, alertVars, now, tick_buffer, app>>

\* asyncio.sleep(delay) returns
WakeUp(symbol) ==
    /\ ws_client.streams[symbol].pc = "sleep"
    /\ ws_client' = [ws_client EXCEPT !.streams[symbol].pc = "while"]
    /\ UNCHANGED <<calc, simVars, tasks, alertVars, now, tick_buffer, app>>

\* The steps the event loop takes by itself: a task that can run is run, a
\* timer fires, an awaited call returns
TaskStep(symbol) ==
    \/ WhileTest(symbol)
    \/ \E outcome \in ConnectOutcomes : Connect(symbol, outcome)
    \/ OnMessageReturn(symbol)
    \/ WakeUp(symbol)

NextClient ==
    \/ Start
    \/ Stop
    \/ \E symbol \in Symbols : TaskStep(symbol)
    \/ \E symbol \in Symbols, message \in Messages : Receive(symbol, message)
    \/ \E symbol \in Symbols, ending \in StreamEndings : StreamEnds(symbol, ending)

SpecClient == Init /\ [][NextClient]_vars

\* The event loop runs every task that is ready; whether the server sends a
\* message or closes the stream is not in its hands.
SpecClientFair ==
    SpecClient /\ \A symbol \in Symbols : WF_vars(TaskStep(symbol))

\* C36: connect_symbol waits min(2^k, 60) seconds after the k-th consecutive
\* WebSocket error, resets the count on every successful connection, gives
\* up after max_reconnect_attempts consecutive errors, and an error on one
\* symbol's stream leaves the tasks of the other symbols as they are.
C36_BackoffPerSymbol ==
    [][\A symbol \in Symbols :
          LET before == ws_client.streams[symbol]
              after == ws_client'.streams[symbol]
          IN  /\ (before.pc # "sleep" /\ after.pc = "sleep") =>
                    /\ after.failures = before.failures + 1
                    /\ after.delay = Min(2 ^ after.failures, 60)
              /\ (before.pc = "connect" /\ after.pc = "recv") =>
                    after.reconnect_count = 0
              /\ (before.pc = "while" /\ after.pc = "connect") =>
                    before.failures < max_reconnect_attempts
              /\ (before.pc = "while" /\ after.pc # "while"
                    /\ before.failures >= max_reconnect_attempts) =>
                    after.pc = "done"
              /\ (before.pc \in {"connect", "recv"} /\ after.pc \in {"sleep", "done"}) =>
                    /\ ws_client'.running = ws_client.running
                    /\ \A other \in Symbols \ {symbol} :
                           ws_client'.streams[other] = ws_client.streams[other]
      ]_vars

C36_Witness ==
    /\ ws_client.running
    /\ ws_client.streams["btcusdt"].pc = "done"
    /\ ws_client.streams["btcusdt"].failures = max_reconnect_attempts
    /\ ws_client.streams["btcusdt"].delay = 60
    /\ ws_client.streams["ethusdt"].pc = "on_message"
    /\ ws_client.streams["ethusdt"].reconnect_count = 0

\* C37: once stop() has cleared running, no message received afterwards is
\* delivered to on_message, and every connect_symbol task terminates,
\* wherever it was: connected, idle or in a backoff.
C37_GracefulShutdown ==
    /\ [][\A symbol \in Symbols :
             (~ws_client.running /\ ws_client.streams[symbol].pc = "recv") =>
                 ws_client'.streams[symbol].pc # "on_message"]_vars
    /\ (ws_client.stopped ~> \A symbol \in Symbols :
                                 ws_client.streams[symbol].pc = "done")
====
